---- MODULE Spec2Model ----
(***************************************************************************)
(* A model of ssh_cli (ask-i-kit/scp_rs): the interactive thread of        *)
(* SshApp (src/ssh_cli/src/app.rs), the worker threads it spawns and the   *)
(* remote operations they run (src/ssh_cli/src/ssh.rs), the mpsc channel   *)
(* between them and the two mutexes of a connection.                       *)
(*                                                                         *)
(* Text (String, &str, Path) is a sequence of one-character strings, so    *)
(* that joining, suffix tests and pattern matching are computed.           *)
(***************************************************************************)
EXTENDS Integers, Sequences, FiniteSets, TLC

VARIABLES
    fs,               \* the remote host: its directories and files
    nconn,            \* number of connection handles created so far
    sftp_locked,      \* per handle: the Mutex<Sftp> is held
    session_locked,   \* per handle: the Mutex<Session> is held
    poisoned,         \* per handle: which of its two Mutexes are poisoned
    clock,            \* Utc::now(), in seconds
    workers,          \* the spawned threads, in spawn order
    channel,          \* the mpsc channel: messages sent and not yet received
    sent,             \* history: per worker, the messages it has sent
    processed,        \* history: per worker, its messages the reducer has handled
    session,          \* SshApp.session
    sftp,             \* SshApp.sftp
    is_connected,     \* SshApp.is_connected
    files,            \* SshApp.files
    selected_file,    \* SshApp.selected_file
    current_path,     \* SshApp.current_path
    search_query,     \* SshApp.search_query
    recursive_search, \* SshApp.recursive_search
    viewing_file,     \* SshApp.viewing_file
    status_msg,       \* SshApp.status_msg
    is_loading,       \* SshApp.is_loading
    sort_column,      \* SshApp.sort_column
    sort_direction,   \* SshApp.sort_direction
    call              \* a single call of a pure function: its arguments and result

envVars  == <<fs, nconn, sftp_locked, session_locked, poisoned, clock>>
thrVars  == <<workers, channel, sent, processed>>
appVars  == <<session, sftp, is_connected, files, selected_file, current_path,
              search_query, recursive_search, viewing_file, status_msg,
              is_loading, sort_column, sort_direction>>
vars     == <<envVars, thrVars, appVars, call>>

(***************************************************************************)
(* Option<T>                                                               *)
(***************************************************************************)
None == [some |-> FALSE, val |-> 0]
Some(x) == [some |-> TRUE, val |-> x]
unwrap_or(o, d) == IF o.some THEN o.val ELSE d

\* Two instants of the wall clock, an hour apart (2026-01-01 00:00 and 01:00).
Instants == <<1767225600, 1767229200>>

(***************************************************************************)
(* Text helpers                                                            *)
(***************************************************************************)
ends_with(s, c) == Len(s) > 0 /\ s[Len(s)] = c

\* The index of the last c in s, 0 when there is none.
rfind(s, c) ==
    LET hits == {i \in 1..Len(s) : s[i] = c}
    IN IF hits = {} THEN 0 ELSE CHOOSE i \in hits : \A j \in hits : j <= i

\* s without its trailing run of c.
trim_end_matches(s, c) ==
    LET keep == {i \in 1..Len(s) : s[i] # c}
        last == IF keep = {} THEN 0 ELSE CHOOSE i \in keep : \A j \in keep : j <= i
    IN SubSeq(s, 1, last)

\* The String as one piece of display text (what {} of format! inserts).
RECURSIVE to_display(_)
to_display(s) == IF s = <<>> THEN "" ELSE Head(s) \o to_display(Tail(s))

(***************************************************************************)
(* std::path                                                               *)
(***************************************************************************)
\* The path with the trailing separators and trailing "." components that
\* Path::components() drops.
RECURSIVE strip_trailing(_)
strip_trailing(p) ==
    IF ends_with(p, "/") THEN strip_trailing(SubSeq(p, 1, Len(p) - 1))
    ELSE IF Len(p) >= 2 /\ p[Len(p)] = "." /\ p[Len(p) - 1] = "/"
         THEN strip_trailing(SubSeq(p, 1, Len(p) - 2))
    ELSE p

\* Path::file_name(): the last component when it is a normal one; None for a
\* path that ends in "..", for the root, for "." and for the empty path.
file_name(p) ==
    LET q == strip_trailing(p)
        last == SubSeq(q, rfind(q, "/") + 1, Len(q))
    IN IF last = <<>> \/ last = <<".">> \/ last = <<".", ".">>
       THEN None ELSE Some(last)

\* Path::join(): dir and name with one separator between them, name alone
\* when it is absolute or dir is empty.
path_join(dir, name) ==
    IF Len(name) > 0 /\ name[1] = "/" THEN name
    ELSE IF dir = <<>> THEN name
    ELSE IF ends_with(dir, "/") THEN dir \o name
    ELSE dir \o <<"/">> \o name

(***************************************************************************)
(* The remote host. fs.dirs maps the absolute path of each directory to    *)
(* what the server sends for it, in the server's order: records [name,     *)
(* stat], "." and ".." included. fs.unreadable are the directories the     *)
(* server refuses to open. A FileStat is [perm, size, mtime], each an      *)
(* Option.                                                                 *)
(***************************************************************************)
IsDotName(n) == n = <<".">> \/ n = <<".", ".">>

\* The absolute path the server resolves a path to: a relative one is taken
\* from the home directory, trailing separators do not count, the empty path
\* names nothing.
server_path(f, path) ==
    LET t == trim_end_matches(path, "/")
    IN IF path = <<>> THEN <<>>
       ELSE IF t = <<>> THEN <<"/">>
       ELSE IF t[1] = "/" THEN t
       ELSE path_join(f.home, t)

\* ssh2's Sftp::readdir(dirname): fails when the directory cannot be opened;
\* otherwise the entries the server sent, without "." and "..", each as
\* (dirname.join(name), stat).
readdir(f, path) ==
    LET key == server_path(f, path)
    IN IF key \in DOMAIN f.dirs /\ key \notin f.unreadable
       THEN LET raw  == f.dirs[key]
                kept == SelectSeq(raw, LAMBDA e : ~IsDotName(e.name))
            IN [ok |-> TRUE,
                entries |-> [i \in 1..Len(kept) |->
                               [path |-> path_join(path, kept[i].name),
                                stat |-> kept[i].stat]]]
       ELSE [ok |-> FALSE, entries |-> <<>>]

\* ssh2's FileStat::is_dir(): the file-type bits of perm say "directory".
is_dir(stat) == (unwrap_or(stat.perm, 0) \div 4096) % 16 = 4

(***************************************************************************)
(* ssh.rs: formatting                                                      *)
(***************************************************************************)
\* A test that looks one bit too high.
bit_set_one_up(perm, pos) == (perm \div (2 ^ (pos + 1))) % 2 = 1

\* perm & bit != 0, for a bit given by its position
bit_set(perm, pos) == (perm \div (2 ^ pos)) % 2 = 1

format_permissions(stat) ==
    LET perm == unwrap_or(stat.perm, 0)
        file_type == IF is_dir(stat) THEN "d" ELSE "-"
        user  == << IF bit_set(perm, 8) THEN "r" ELSE "-",
                    IF bit_set(perm, 7) THEN "w" ELSE "-",
                    IF bit_set(perm, 6) THEN "x" ELSE "-" >>
        group == << IF bit_set(perm, 5) THEN "r" ELSE "-",
                    IF bit_set(perm, 4) THEN "w" ELSE "-",
                    IF bit_set(perm, 3) THEN "x" ELSE "-" >>
        other == << IF bit_set(perm, 2) THEN "r" ELSE "-",
                    IF bit_set(perm, 1) THEN "w" ELSE "-",
                    IF bit_set(perm, 0) THEN "x" ELSE "-" >>
    IN <<file_type>> \o user \o group \o other

MonthAbbr ==
    << <<"J","a","n">>, <<"F","e","b">>, <<"M","a","r">>, <<"A","p","r">>,
       <<"M","a","y">>, <<"J","u","n">>, <<"J","u","l">>, <<"A","u","g">>,
       <<"S","e","p">>, <<"O","c","t">>, <<"N","o","v">>, <<"D","e","c">> >>

Digit == <<"0","1","2","3","4","5","6","7","8","9">>
two_digits(n) == << Digit[((n \div 10) % 10) + 1], Digit[(n % 10) + 1] >>

\* A u64 below 2^62, as the two numbers hi and lo of hi * 2^31 + lo with
\* lo < 2^31.
U64(hi, lo) == [hi |-> hi, lo |-> lo]

\* chrono: the UTC date and time of the instant secs seconds into the day
\* numbered days (day 0 is 1970-01-01), as "%b %d %H:%M".
format_utc(days, secs) ==
    LET z    == days + 719468
        doe  == z % 146097
        yoe  == (doe - doe \div 1460 + doe \div 36524 - doe \div 146096) \div 365
        doy  == doe - (365 * yoe + yoe \div 4 - yoe \div 100)
        mp   == (5 * doy + 2) \div 153
        d    == doy - (153 * mp + 2) \div 5 + 1
        m    == IF mp < 10 THEN mp + 3 ELSE mp - 9
    IN MonthAbbr[m] \o <<" ">> \o two_digits(d) \o <<" ">>
       \o two_digits(secs \div 3600) \o <<":">> \o two_digits((secs % 3600) \div 60)

\* The last second chrono's DateTime<Utc> holds, 262142-12-31 23:59:59, is
\* second ChronoMaxHi * 2^31 + ChronoMaxLo.
ChronoMaxHi == 3823
ChronoMaxLo == 436890495

\* Utc.timestamp_opt(timestamp as i64, 0).single(): None beyond chrono's range
timestamp_opt(t) ==
    IF t.hi < ChronoMaxHi \/ (t.hi = ChronoMaxHi /\ t.lo <= ChronoMaxLo)
    THEN Some(t) ELSE None

\* The day and the second of the day of a timestamp chrono holds;
\* 2^31 = 86400 * 24855 + 11648.
day_and_second(t) ==
    LET low == t.hi * 11648 + (t.lo % 86400)
    IN [days |-> t.hi * 24855 + (t.lo \div 86400) + (low \div 86400),
        secs |-> low % 86400]

\* format_timestamp(mtime): a timestamp chrono does not hold is rendered as
\* the time of the call, Utc::now().
format_timestamp(mtime) ==
    IF mtime.some
    THEN LET dt == unwrap_or(timestamp_opt(mtime.val), U64(0, clock))
             at == day_and_second(dt)
         IN format_utc(at.days, at.secs)
    ELSE <<"U","n","k","n","o","w","n">>

\* The FileEntry both engines build from a name and a stat.
FileEntry(name, stat) ==
    [perm |-> format_permissions(stat),
     size |-> unwrap_or(stat.size, 0),
     date |-> format_timestamp(stat.mtime),
     name |-> name]

(***************************************************************************)
(* ssh.rs: matches_pattern, through the regex crate                        *)
(***************************************************************************)
\* The characters regex::escape puts a backslash before.
RegexMeta == {"\\", ".", "+", "*", "?", "(", ")", "|", "[", "]", "{", "}",
              "^", "$", "#", "&", "-", "~"}

RECURSIVE regex_escape(_)
regex_escape(text) ==
    IF text = <<>> THEN <<>>
    ELSE (IF Head(text) \in RegexMeta THEN <<"\\", Head(text)>> ELSE <<Head(text)>>)
         \o regex_escape(Tail(text))

\* str::replace(from, to): every non-overlapping occurrence, left to right.
RECURSIVE str_replace(_, _, _)
str_replace(text, from, to) ==
    IF Len(text) < Len(from) THEN text
    ELSE IF SubSeq(text, 1, Len(from)) = from
         THEN to \o str_replace(SubSeq(text, Len(from) + 1, Len(text)), from, to)
    ELSE <<Head(text)>> \o str_replace(Tail(text), from, to)

\* Regex::new on the text between "^" and "$": the items of the expression, or
\* an error. The texts matches_pattern builds hold escaped characters, plain
\* characters, "." and ".*".
RECURSIVE regex_parse(_)
regex_parse(text) ==
    IF text = <<>> THEN [ok |-> TRUE, items |-> <<>>]
    ELSE IF Head(text) = "\\"
         THEN IF Len(text) < 2 THEN [ok |-> FALSE, items |-> <<>>]
              ELSE LET r == regex_parse(SubSeq(text, 3, Len(text)))
                   IN [ok |-> r.ok,
                       items |-> <<[kind |-> "lit", ch |-> text[2]]>> \o r.items]
    ELSE IF Head(text) = "."
         THEN IF Len(text) >= 2 /\ text[2] = "*"
              THEN LET r == regex_parse(SubSeq(text, 3, Len(text)))
                   IN [ok |-> r.ok,
                       items |-> <<[kind |-> "anystar", ch |-> "."]>> \o r.items]
              ELSE LET r == regex_parse(Tail(text))
                   IN [ok |-> r.ok,
                       items |-> <<[kind |-> "any", ch |-> "."]>> \o r.items]
    ELSE IF Head(text) \in RegexMeta THEN [ok |-> FALSE, items |-> <<>>]
    ELSE LET r == regex_parse(Tail(text))
         IN [ok |-> r.ok, items |-> <<[kind |-> "lit", ch |-> Head(text)]>> \o r.items]

\* What "." of a regex matches: any character except the line feed.
regex_dot(c) == c # "\n"

\* Regex::is_match for "^" items "$": the items match the whole text.
RECURSIVE regex_match(_, _)
regex_match(items, text) ==
    IF items = <<>> THEN text = <<>>
    ELSE LET it == Head(items) IN
         CASE it.kind = "lit" ->
                text # <<>> /\ Head(text) = it.ch /\ regex_match(Tail(items), Tail(text))
           [] it.kind = "any" ->
                text # <<>> /\ regex_dot(Head(text)) /\ regex_match(Tail(items), Tail(text))
           [] OTHER ->
                \/ regex_match(Tail(items), text)
                \/ text # <<>> /\ regex_dot(Head(text)) /\ regex_match(items, Tail(text))

matches_pattern(name, pattern) ==
    LET pattern_escaped ==
            str_replace(str_replace(regex_escape(pattern), <<"\\", "*">>, <<".", "*">>),
                        <<"\\", "?">>, <<".">>)
        re == regex_parse(pattern_escaped)
    IN IF re.ok THEN regex_match(re.items, name) ELSE FALSE

(***************************************************************************)
(* ssh.rs: the listing engine and the search engine, as far as they        *)
(* compute locally. A loop over a Vec is evaluated by halves, the first    *)
(* half completely before the second, which is the loop's own order.       *)
(***************************************************************************)
\* batch.len() >= 200
BatchSize == 200
\* results.chunks(200)
ChunkSize == 200

\* list_body with the batch handed over only once it holds more than BatchSize
list_body_late(st, entry) ==
    LET n    == file_name(entry.path)
        name == IF n.some THEN n.val ELSE <<"?">>
    IN IF IsDotName(name) THEN st
       ELSE LET batch == Append(st.batch, FileEntry(name, entry.stat))
            IN IF Len(batch) > BatchSize
               THEN [batch |-> <<>>, out |-> Append(st.out, batch)]
               ELSE [batch |-> batch, out |-> st.out]

\* One iteration of the for loop of list_files_streaming. st.batch is the
\* Vec being filled, st.out the batches handed to tx.send so far.
list_body(st, entry) ==
    LET n    == file_name(entry.path)
        name == IF n.some THEN n.val ELSE <<"?">>
    IN IF IsDotName(name) THEN st
       ELSE LET batch == Append(st.batch, FileEntry(name, entry.stat))
            IN IF Len(batch) >= BatchSize
               THEN [batch |-> <<>>, out |-> Append(st.out, batch)]
               ELSE [batch |-> batch, out |-> st.out]

RECURSIVE list_loop(_, _, _, _)
list_loop(entries, lo, hi, st) ==
    IF lo > hi THEN st
    ELSE IF lo = hi THEN list_body(st, entries[lo])
    ELSE LET mid  == (lo + hi) \div 2
             left == list_loop(entries, lo, mid, st)
         IN IF left.batch = left.batch
            THEN list_loop(entries, mid + 1, hi, left) ELSE left

\* The payloads of the ListBatch messages list_files_streaming sends for the
\* entries readdir returned, in sending order: the full batches of the loop,
\* then the rest when it is not empty.
list_batches(entries) ==
    LET st == list_loop(entries, 1, Len(entries), [batch |-> <<>>, out |-> <<>>])
    IN IF st.batch # <<>> THEN Append(st.out, st.batch) ELSE st.out

\* search_recursive and its for loop. st.results is the Vec the matches are
\* pushed to, st.trips counts the readdir requests made. The result of a
\* nested call is dropped (let _ =), what it pushed stays.
RECURSIVE search_recursive(_, _, _, _, _)
RECURSIVE search_loop(_, _, _, _, _, _, _)

\* A loop body that enters only the directories that matched: what C6 rules out
search_body_matched_only(f, pattern, recursive, st, entry) ==
    LET n    == file_name(entry.path)
        name == IF n.some THEN n.val ELSE <<>>
        hit  == matches_pattern(name, pattern)
        here == [results |-> IF hit THEN Append(st.results, FileEntry(name, entry.stat))
                             ELSE st.results,
                 trips |-> st.trips]
    IN IF IsDotName(name) THEN st
       ELSE IF recursive /\ is_dir(entry.stat) /\ hit
            THEN LET sub == search_recursive(f, entry.path, pattern, recursive, here)
                 IN [results |-> sub.results, trips |-> sub.trips]
            ELSE here

\* A loop body that loses what was found when a nested call fails: what C7
\* rules out
search_body_forgetful(f, pattern, recursive, st, entry) ==
    LET n    == file_name(entry.path)
        name == IF n.some THEN n.val ELSE <<>>
        here == [results |-> IF matches_pattern(name, pattern)
                             THEN Append(st.results, FileEntry(name, entry.stat))
                             ELSE st.results,
                 trips |-> st.trips]
    IN IF IsDotName(name) THEN st
       ELSE IF recursive /\ is_dir(entry.stat)
            THEN LET sub == search_recursive(f, entry.path, pattern, recursive, here)
                 IN [results |-> IF sub.ok THEN sub.results ELSE <<>>,
                     trips |-> sub.trips]
            ELSE here

search_body(f, pattern, recursive, st, entry) ==
    LET n    == file_name(entry.path)
        name == IF n.some THEN n.val ELSE <<>>
    IN IF IsDotName(name) THEN st
       ELSE LET pushed == IF matches_pattern(name, pattern)
                          THEN Append(st.results, FileEntry(name, entry.stat))
                          ELSE st.results
                here   == [results |-> pushed, trips |-> st.trips]
            IN IF recursive /\ is_dir(entry.stat)
               THEN LET sub == search_recursive(f, entry.path, pattern, recursive, here)
                    IN [results |-> sub.results, trips |-> sub.trips]
               ELSE here

search_loop(f, entries, lo, hi, pattern, recursive, st) ==
    IF lo > hi THEN st
    ELSE IF lo = hi THEN search_body(f, pattern, recursive, st, entries[lo])
    ELSE LET mid  == (lo + hi) \div 2
             left == search_loop(f, entries, lo, mid, pattern, recursive, st)
         IN IF left.trips = left.trips
            THEN search_loop(f, entries, mid + 1, hi, pattern, recursive, left)
            ELSE left

search_recursive(f, path, pattern, recursive, st) ==
    LET rd == readdir(f, path)
    IN IF ~rd.ok
       THEN [ok |-> FALSE, results |-> st.results, trips |-> st.trips + 1]
       ELSE LET end == search_loop(f, rd.entries, 1, Len(rd.entries), pattern, recursive,
                                   [results |-> st.results, trips |-> st.trips + 1])
            IN [ok |-> TRUE, results |-> end.results, trips |-> end.trips]

\* The results in one piece: what C5 rules out
chunks_whole(s, size) == IF s = <<>> THEN <<>> ELSE <<s>>

\* slice::chunks(size): consecutive pieces of size elements, the last one shorter
\* when the length is no multiple of size.
chunks(s, size) ==
    [k \in 1..((Len(s) + size - 1) \div size) |->
        SubSeq(s, (k - 1) * size + 1, IF k * size < Len(s) THEN k * size ELSE Len(s))]

(***************************************************************************)
(* String and integer comparison (Ord), and Vec::sort_by                   *)
(***************************************************************************)
\* The characters of the model in code order: line feed, then U+0020..U+007E
\* (the grave accent left out).
CharTable ==
    << "\n", " ", "!", "\"", "#", "$", "%", "&", "'", "(", ")", "*",
       "+", ",", "-", ".", "/", "0", "1", "2", "3", "4", "5", "6",
       "7", "8", "9", ":", ";", "<", "=", ">", "?", "@", "A", "B",
       "C", "D", "E", "F", "G", "H", "I", "J", "K", "L", "M", "N",
       "O", "P", "Q", "R", "S", "T", "U", "V", "W", "X", "Y", "Z",
       "[", "\\", "]", "^", "_", "a", "b", "c", "d", "e", "f",
       "g", "h", "i", "j", "k", "l", "m", "n", "o", "p", "q", "r",
       "s", "t", "u", "v", "w", "x", "y", "z", "{", "|", "}", "~" >>

char_code(c) == CHOOSE i \in 1..Len(CharTable) : CharTable[i] = c

\* a.cmp(b) for integers: -1, 0 or 1
int_cmp(a, b) == IF a < b THEN -1 ELSE IF a > b THEN 1 ELSE 0

\* a.cmp(b) for strings: by the first position where they differ, a proper
\* prefix first.
str_cmp(a, b) ==
    LET common == IF Len(a) < Len(b) THEN Len(a) ELSE Len(b)
        diff   == {i \in 1..common : a[i] # b[i]}
    IN IF diff = {} THEN int_cmp(Len(a), Len(b))
       ELSE LET i == CHOOSE k \in diff : \A j \in diff : k <= j
            IN int_cmp(char_code(a[i]), char_code(b[i]))

\* The closure sort_files hands to sort_by.
sort_cmp(column, direction, a, b) ==
    LET ord == CASE column = "Permission" -> str_cmp(a.perm, b.perm)
                 [] column = "Size"       -> int_cmp(a.size, b.size)
                 [] column = "Date"       -> str_cmp(a.date, b.date)
                 [] column = "Name"       -> str_cmp(a.name, b.name)
                 [] OTHER                 -> 0
    IN IF direction = "Asc" THEN ord ELSE -ord

\* A sort that puts equal elements in the reverse of their previous order.
sort_by_unstable(v, column, direction) ==
    LET n == Len(v)
        before(i) == {j \in 1..n :
                        \/ sort_cmp(column, direction, v[j], v[i]) < 0
                        \/ sort_cmp(column, direction, v[j], v[i]) = 0 /\ j > i}
        at(p) == CHOOSE i \in 1..n : Cardinality(before(i)) = p - 1
    IN [p \in 1..n |-> v[at(p)]]

\* Vec::sort_by, a stable sort: an element goes behind the elements that
\* compare less and behind the equal ones that stood before it.
sort_by(v, column, direction) ==
    LET n == Len(v)
        before(i) == {j \in 1..n :
                        \/ sort_cmp(column, direction, v[j], v[i]) < 0
                        \/ sort_cmp(column, direction, v[j], v[i]) = 0 /\ j < i}
        at(p) == CHOOSE i \in 1..n : Cardinality(before(i)) = p - 1
    IN [p \in 1..n |-> v[at(p)]]

\* SshApp::sort_files, as a function of the fields it reads
sort_files(v, column, direction) ==
    IF column = "None" THEN v ELSE sort_by(v, column, direction)

\* A trigger_sort that keeps the direction when the column changes.
trigger_sort_keeping_direction(cur_column, cur_direction, column) ==
    IF cur_column = column
    THEN [column |-> cur_column,
          direction |-> IF cur_direction = "Asc" THEN "Desc" ELSE "Asc"]
    ELSE [column |-> column, direction |-> cur_direction]

\* SshApp::trigger_sort: the new (sort_column, sort_direction)
trigger_sort(cur_column, cur_direction, column) ==
    IF cur_column = column
    THEN [column |-> cur_column,
          direction |-> IF cur_direction = "Asc" THEN "Desc" ELSE "Asc"]
    ELSE [column |-> column, direction |-> "Asc"]

(***************************************************************************)
(* app.rs: AppMessage                                                      *)
(***************************************************************************)
ConnectionOk(h, path)   == [type |-> "ConnectionResult", ok |-> TRUE, handle |-> h,
                            path |-> path, reason |-> ""]
ConnectionErr(e)        == [type |-> "ConnectionResult", ok |-> FALSE, handle |-> 0,
                            path |-> <<>>, reason |-> e]
ListStarted(path)       == [type |-> "ListStarted", path |-> path]
ListBatch(entries)      == [type |-> "ListBatch", entries |-> entries]
ListFinished            == [type |-> "ListFinished"]
ListError(e)            == [type |-> "ListError", reason |-> e]
SearchStarted(pattern)  == [type |-> "SearchStarted", pattern |-> pattern]
DownloadOk(text)        == [type |-> "DownloadResult", ok |-> TRUE, text |-> text]
DownloadErr(e)          == [type |-> "DownloadResult", ok |-> FALSE, text |-> <<e>>]
FileContentOk(name, raw) == [type |-> "FileContentResult", ok |-> TRUE, name |-> name,
                             content |-> raw, reason |-> ""]
FileContentErr(e)       == [type |-> "FileContentResult", ok |-> FALSE, name |-> <<>>,
                            content |-> <<>>, reason |-> e]

(***************************************************************************)
(* Threads. A worker is a record: kind says which closure it runs          *)
(* ("connect", "list", "search", "view", "download"), pc where it is, h    *)
(* the connection handle it was given, guard the MutexGuard it holds,      *)
(* queue the batches it has built and not yet sent, trips the remote       *)
(* requests made under its guard, stages the steps of connect_session it   *)
(* attempted.                                                              *)
(***************************************************************************)
Worker(kind, pc, h, path) ==
    [kind |-> kind, pc |-> pc, h |-> h, path |-> path,
     pattern |-> <<>>, recursive |-> FALSE, display |-> <<>>,
     guard |-> "none", queue |-> <<>>, trips |-> 0, stages |-> <<>>,
     err |-> "", max_bytes |-> 0]

WorkerIds == 1..Len(workers)

\* A spawn that stops the threads started before it.
Spawn_cancelling(wk) ==
    /\ workers' = Append([w \in WorkerIds |-> [workers[w] EXCEPT !.pc = "done"]], wk)
    /\ sent' = Append(sent, <<>>)
    /\ processed' = Append(processed, <<>>)

\* thread::spawn: the new thread and its empty histories
Spawn(wk) ==
    /\ workers' = Append(workers, wk)
    /\ sent' = Append(sent, <<>>)
    /\ processed' = Append(processed, <<>>)

\* tx.send(msg) by worker w
Send(w, msg) ==
    /\ channel' = Append(channel, [from |-> w, msg |-> msg])
    /\ sent' = [sent EXCEPT ![w] = Append(@, msg)]

\* Two Mutexes no thread has panicked under.
Sound == [sftp |-> FALSE, session |-> FALSE]

\* A lock() that never waits: what C3 rules out
CanLockSftp_never_waits(h) == TRUE
\* One lock for both parts of the handle: what C10 rules out
CanLockSession_shared(h) == ~session_locked[h] /\ ~sftp_locked[h]

\* Mutex::lock() on the Sftp of handle h: possible only while nobody holds it
CanLockSftp(h) == ~sftp_locked[h]
\* Mutex::lock() on the Session of handle h
CanLockSession(h) == ~session_locked[h]

(***************************************************************************)
(* connect_session and the connect closure of connect_ssh                  *)
(***************************************************************************)
\* ssh.rs 11-24: the fallible steps of connect_session, in the order of the code
ConnectStages ==
    <<"dial", "session", "handshake", "auth", "sftp", "realpath", "to_str">>

\* A connect_session that goes on with the remaining steps after a failure.
connect_session_keeps_going(f, failing) ==
    IF failing = 0
    THEN [ok |-> TRUE, stages |-> ConnectStages, path |-> f.home, err |-> ""]
    ELSE [ok |-> FALSE, stages |-> ConnectStages, path |-> <<>>,
          err |-> ConnectStages[failing] \o " failed"]

\* connect_session when the step numbered failing fails (0: none does): the
\* steps attempted, and the result.
connect_session(f, failing) ==
    IF failing = 0
    THEN [ok |-> TRUE, stages |-> ConnectStages, path |-> f.home, err |-> ""]
    ELSE [ok |-> FALSE, stages |-> SubSeq(ConnectStages, 1, failing), path |-> <<>>,
          err |-> ConnectStages[failing] \o " failed"]

\* A connect closure that announces its listing before its result.
ConnectWorker_listing_first(w) ==
    /\ workers[w].kind = "connect" /\ workers[w].pc = "connect"
    /\ \E failing \in 0..Len(ConnectStages) :
         LET r == connect_session(fs, failing) IN
         IF r.ok
         THEN /\ nconn' = nconn + 1
              /\ sftp_locked' = Append(sftp_locked, FALSE)
              /\ session_locked' = Append(session_locked, FALSE)
              /\ poisoned' = Append(poisoned, Sound)
              /\ channel' = channel \o << [from |-> w, msg |-> ListStarted(r.path)],
                                          [from |-> w,
                                           msg |-> ConnectionOk(nconn + 1, r.path)] >>
              /\ sent' = [sent EXCEPT ![w] = @ \o << ListStarted(r.path),
                                                     ConnectionOk(nconn + 1, r.path) >>]
              /\ workers' = [workers EXCEPT ![w].pc = "lock", ![w].h = nconn + 1,
                                            ![w].path = r.path, ![w].stages = r.stages]
         ELSE /\ Send(w, ConnectionErr(r.err))
              /\ workers' = [workers EXCEPT ![w].pc = "done", ![w].stages = r.stages,
                                            ![w].err = r.err]
              /\ UNCHANGED <<nconn, sftp_locked, session_locked, poisoned>>
    /\ UNCHANGED <<fs, clock, processed, appVars, call>>

\* app.rs 175-189: connect_session, then ConnectionResult; on success the two
\* Arc<Mutex<..>> are created and the worker goes on to list the initial path.
ConnectWorker(w) ==
    /\ workers[w].kind = "connect" /\ workers[w].pc = "connect"
    /\ \E failing \in 0..Len(ConnectStages) :
         LET r == connect_session(fs, failing) IN
         IF r.ok
         THEN /\ nconn' = nconn + 1
              /\ sftp_locked' = Append(sftp_locked, FALSE)
              /\ session_locked' = Append(session_locked, FALSE)
              /\ poisoned' = Append(poisoned, Sound)
              /\ Send(w, ConnectionOk(nconn + 1, r.path))
              /\ workers' = [workers EXCEPT ![w].pc = "start", ![w].h = nconn + 1,
                                            ![w].path = r.path, ![w].stages = r.stages]
         ELSE /\ Send(w, ConnectionErr(r.err))
              /\ workers' = [workers EXCEPT ![w].pc = "done", ![w].stages = r.stages,
                                            ![w].err = r.err]
              /\ UNCHANGED <<nconn, sftp_locked, session_locked, poisoned>>
    /\ UNCHANGED <<fs, clock, processed, appVars, call>>

(***************************************************************************)
(* list_files_streaming, run by the closure of list_directory (kind        *)
(* "list") or by the connect closure (kind "connect")                      *)
(***************************************************************************)
RunsList(w) == workers[w].kind \in {"list", "connect"}

\* ssh.rs 36
ListStart(w) ==
    /\ RunsList(w) /\ workers[w].pc = "start"
    /\ Send(w, ListStarted(workers[w].path))
    /\ workers' = [workers EXCEPT ![w].pc = "lock"]
    /\ UNCHANGED <<envVars, processed, appVars, call>>

\* ssh.rs 38: sftp.lock() returns once nobody else holds the lock; of a poisoned
\* lock it returns Err, map_err drops the guard it carries, and ? returns
ListLock(w) ==
    /\ RunsList(w) /\ workers[w].pc = "lock"
    /\ CanLockSftp(workers[w].h)
    /\ IF poisoned[workers[w].h].sftp
       THEN /\ workers' = [workers EXCEPT ![w].pc = "failed", ![w].err = "Lock error"]
            /\ UNCHANGED sftp_locked
       ELSE /\ sftp_locked' = [sftp_locked EXCEPT ![workers[w].h] = TRUE]
            /\ workers' = [workers EXCEPT ![w].pc = "readdir", ![w].guard = "sftp"]
    /\ UNCHANGED <<fs, nconn, poisoned, clock, session_locked, channel, sent, processed, appVars, call>>

\* ssh.rs 40-70: readdir; on failure the function returns the error and the
\* guard is dropped; on success the batches are built.
ListReaddir(w) ==
    /\ RunsList(w) /\ workers[w].pc = "readdir"
    /\ LET rd == readdir(fs, workers[w].path) IN
       IF rd.ok
       THEN /\ workers' = [workers EXCEPT ![w].pc = "send", ![w].trips = 1,
                                          ![w].queue = list_batches(rd.entries)]
            /\ UNCHANGED sftp_locked
       ELSE /\ workers' = [workers EXCEPT ![w].pc = "failed", ![w].trips = 0,
                                          ![w].guard = "none",
                                          ![w].err = "readdir failed"]
            /\ sftp_locked' = [sftp_locked EXCEPT ![workers[w].h] = FALSE]
    /\ UNCHANGED <<fs, nconn, poisoned, clock, session_locked, channel, sent, processed, appVars, call>>

\* ssh.rs 63 and 69
ListSendBatch(w) ==
    /\ RunsList(w) /\ workers[w].pc = "send" /\ workers[w].queue # <<>>
    /\ Send(w, ListBatch(Head(workers[w].queue)))
    /\ workers' = [workers EXCEPT ![w].queue = Tail(@)]
    /\ UNCHANGED <<envVars, processed, appVars, call>>

\* A listing that ends without dropping its guard.
ListFinish_keeping_guard(w) ==
    /\ RunsList(w) /\ workers[w].pc = "send" /\ workers[w].queue = <<>>
    /\ Send(w, ListFinished)
    /\ workers' = [workers EXCEPT ![w].pc = "done", ![w].trips = 0]
    /\ UNCHANGED <<envVars, processed, appVars, call>>

\* ssh.rs 71-73: ListFinished, then the return drops the guard
ListFinish(w) ==
    /\ RunsList(w) /\ workers[w].pc = "send" /\ workers[w].queue = <<>>
    /\ Send(w, ListFinished)
    /\ sftp_locked' = [sftp_locked EXCEPT ![workers[w].h] = FALSE]
    /\ workers' = [workers EXCEPT ![w].pc = "done", ![w].guard = "none", ![w].trips = 0]
    /\ UNCHANGED <<fs, nconn, poisoned, clock, session_locked, processed, appVars, call>>

\* app.rs 200-202: list_directory's closure reports the error
ListDirectoryErr(w) ==
    /\ workers[w].kind = "list" /\ workers[w].pc = "failed"
    /\ Send(w, ListError(workers[w].err))
    /\ workers' = [workers EXCEPT ![w].pc = "done"]
    /\ UNCHANGED <<envVars, processed, appVars, call>>

\* app.rs 185: the connect closure drops the result of the listing (let _ =)
ConnectListErr(w) ==
    /\ workers[w].kind = "connect" /\ workers[w].pc = "failed"
    /\ workers' = [workers EXCEPT ![w].pc = "done"]
    /\ UNCHANGED <<envVars, channel, sent, processed, appVars, call>>

(***************************************************************************)
(* search_files_streaming, run by the closure of search_files              *)
(***************************************************************************)
\* ssh.rs 83
SearchStart(w) ==
    /\ workers[w].kind = "search" /\ workers[w].pc = "start"
    /\ Send(w, SearchStarted(workers[w].pattern))
    /\ workers' = [workers EXCEPT ![w].pc = "lock"]
    /\ UNCHANGED <<envVars, processed, appVars, call>>

\* ssh.rs 85: sftp.lock() returns once nobody else holds the lock; of a poisoned
\* lock it returns Err, map_err drops the guard it carries, and ? returns
SearchLock(w) ==
    /\ workers[w].kind = "search" /\ workers[w].pc = "lock"
    /\ CanLockSftp(workers[w].h)
    /\ IF poisoned[workers[w].h].sftp
       THEN /\ workers' = [workers EXCEPT ![w].pc = "failed", ![w].err = "Lock error"]
            /\ UNCHANGED sftp_locked
       ELSE /\ sftp_locked' = [sftp_locked EXCEPT ![workers[w].h] = TRUE]
            /\ workers' = [workers EXCEPT ![w].pc = "walk", ![w].guard = "sftp"]
    /\ UNCHANGED <<fs, nconn, poisoned, clock, session_locked, channel, sent, processed, appVars, call>>

\* ssh.rs 124-128: the whole traversal, under the guard taken before it; when
\* the readdir of base_path fails the function returns the error and the guard
\* is dropped; otherwise the results are cut into chunks.
SearchWalk(w) ==
    /\ workers[w].kind = "search" /\ workers[w].pc = "walk"
    /\ LET r == search_recursive(fs, workers[w].path, workers[w].pattern,
                                 workers[w].recursive, [results |-> <<>>, trips |-> 0])
       IN IF r.ok
          THEN /\ workers' = [workers EXCEPT ![w].pc = "send", ![w].trips = r.trips,
                                             ![w].queue = chunks(r.results, ChunkSize)]
               /\ UNCHANGED sftp_locked
          ELSE /\ workers' = [workers EXCEPT ![w].pc = "failed", ![w].trips = 0,
                                             ![w].guard = "none",
                                             ![w].err = "readdir failed"]
               /\ sftp_locked' = [sftp_locked EXCEPT ![workers[w].h] = FALSE]
    /\ UNCHANGED <<fs, nconn, poisoned, clock, session_locked, channel, sent, processed, appVars, call>>

\* ssh.rs 128-130
SearchSendBatch(w) ==
    /\ workers[w].kind = "search" /\ workers[w].pc = "send" /\ workers[w].queue # <<>>
    /\ Send(w, ListBatch(Head(workers[w].queue)))
    /\ workers' = [workers EXCEPT ![w].queue = Tail(@)]
    /\ UNCHANGED <<envVars, processed, appVars, call>>

\* ssh.rs 131-133: ListFinished, then the return drops the guard
SearchFinish(w) ==
    /\ workers[w].kind = "search" /\ workers[w].pc = "send" /\ workers[w].queue = <<>>
    /\ Send(w, ListFinished)
    /\ sftp_locked' = [sftp_locked EXCEPT ![workers[w].h] = FALSE]
    /\ workers' = [workers EXCEPT ![w].pc = "done", ![w].guard = "none", ![w].trips = 0]
    /\ UNCHANGED <<fs, nconn, poisoned, clock, session_locked, processed, appVars, call>>

\* app.rs 216-220: search_files' closure reports the error
SearchFilesErr(w) ==
    /\ workers[w].kind = "search" /\ workers[w].pc = "failed"
    /\ Send(w, ListError(workers[w].err))
    /\ workers' = [workers EXCEPT ![w].pc = "done"]
    /\ UNCHANGED <<envVars, processed, appVars, call>>

(***************************************************************************)
(* read_file_content, run by the closure of view_file                      *)
(***************************************************************************)
\* view_file passes 100000
ViewMaxBytes == 100000

\* A lock() that hands out the guard of a poisoned lock as well.
ViewLock_ignoring_poison(w) ==
    /\ workers[w].kind = "view" /\ workers[w].pc = "lock"
    /\ CanLockSftp(workers[w].h)
    /\ sftp_locked' = [sftp_locked EXCEPT ![workers[w].h] = TRUE]
    /\ workers' = [workers EXCEPT ![w].pc = "open", ![w].guard = "sftp"]
    /\ UNCHANGED <<fs, nconn, poisoned, clock, session_locked, channel, sent, processed, appVars, call>>

\* ssh.rs 153: sftp.lock() returns once nobody else holds the lock; of a poisoned
\* lock it returns Err, map_err drops the guard it carries, and ? returns
ViewLock(w) ==
    /\ workers[w].kind = "view" /\ workers[w].pc = "lock"
    /\ CanLockSftp(workers[w].h)
    /\ IF poisoned[workers[w].h].sftp
       THEN /\ workers' = [workers EXCEPT ![w].pc = "failed", ![w].err = "Lock error"]
            /\ UNCHANGED sftp_locked
       ELSE /\ sftp_locked' = [sftp_locked EXCEPT ![workers[w].h] = TRUE]
            /\ workers' = [workers EXCEPT ![w].pc = "open", ![w].guard = "sftp"]
    /\ UNCHANGED <<fs, nconn, poisoned, clock, session_locked, channel, sent, processed, appVars, call>>

\* ssh.rs 154: sftp.open; a path that names nothing fails, and the return
\* drops the guard.
ViewOpen(w) ==
    /\ workers[w].kind = "view" /\ workers[w].pc = "open"
    /\ LET sp == server_path(fs, workers[w].path) IN
       IF sp \in DOMAIN fs.files \/ sp \in DOMAIN fs.dirs
       THEN /\ workers' = [workers EXCEPT ![w].pc = "read", ![w].trips = 1]
            /\ UNCHANGED sftp_locked
       ELSE /\ workers' = [workers EXCEPT ![w].pc = "failed", ![w].guard = "none",
                                          ![w].err = "open failed"]
            /\ sftp_locked' = [sftp_locked EXCEPT ![workers[w].h] = FALSE]
    /\ UNCHANGED <<fs, nconn, poisoned, clock, session_locked, channel, sent, processed, appVars, call>>

\* A read that is not held back by the size of the buffer.
read_counts_of_the_file(len, max_bytes) == IF len = 0 THEN {0} ELSE 1..len

\* ssh.rs 157-158: the byte counts one read into a buffer of max_bytes may
\* return for a file of len bytes: at least one byte when there is one, never
\* more than the buffer or the file holds.
read_counts(len, max_bytes) ==
    LET most == IF len < max_bytes THEN len ELSE max_bytes
    IN IF most = 0 THEN {0} ELSE 1..most

\* ssh.rs 157-162: one read, FileContentResult(Ok), then the return drops the
\* guard; a read that fails (the path names a directory) returns the error.
ViewRead(w) ==
    /\ workers[w].kind = "view" /\ workers[w].pc = "read"
    /\ sftp_locked' = [sftp_locked EXCEPT ![workers[w].h] = FALSE]
    /\ LET sp == server_path(fs, workers[w].path) IN
       IF sp \in DOMAIN fs.files
       THEN \E bytes_read \in read_counts(Len(fs.files[sp]), workers[w].max_bytes) :
              /\ Send(w, FileContentOk(workers[w].path,
                                       SubSeq(fs.files[sp], 1, bytes_read)))
              /\ workers' = [workers EXCEPT ![w].pc = "done", ![w].guard = "none",
                                            ![w].trips = 0]
       ELSE /\ workers' = [workers EXCEPT ![w].pc = "failed", ![w].guard = "none",
                                          ![w].trips = 0, ![w].err = "read failed"]
            /\ UNCHANGED <<channel, sent>>
    /\ UNCHANGED <<fs, nconn, poisoned, clock, session_locked, processed, appVars, call>>

\* A closure of view_file that ends without a word when the read failed.
ViewFileErr_silent(w) ==
    /\ workers[w].kind = "view" /\ workers[w].pc = "failed"
    /\ workers' = [workers EXCEPT ![w].pc = "done"]
    /\ UNCHANGED <<envVars, channel, sent, processed, appVars, call>>

\* app.rs 499-503: view_file's closure reports the error
ViewFileErr(w) ==
    /\ workers[w].kind = "view" /\ workers[w].pc = "failed"
    /\ Send(w, FileContentErr(workers[w].err))
    /\ workers' = [workers EXCEPT ![w].pc = "done"]
    /\ UNCHANGED <<envVars, processed, appVars, call>>

(***************************************************************************)
(* download_worker, run by the closure of download_file                    *)
(***************************************************************************)
\* ssh.rs 137: session.lock() returns once nobody else holds the lock; of a
\* poisoned lock it returns Err, and ? returns
DownloadLock(w) ==
    /\ workers[w].kind = "download" /\ workers[w].pc = "lock"
    /\ CanLockSession(workers[w].h)
    /\ IF poisoned[workers[w].h].session
       THEN /\ workers' = [workers EXCEPT ![w].pc = "result",
                                          ![w].err = "Failed to lock session"]
            /\ UNCHANGED session_locked
       ELSE /\ session_locked' = [session_locked EXCEPT ![workers[w].h] = TRUE]
            /\ workers' = [workers EXCEPT ![w].pc = "copy", ![w].guard = "session"]
    /\ UNCHANGED <<fs, nconn, poisoned, clock, sftp_locked, channel, sent, processed, appVars, call>>

\* ssh.rs 138-144: scp_recv, File::create and io::copy; the return, with or
\* without an error, drops the guard. scp_recv fails for a path that names no
\* file; creating or writing the local file may fail.
DownloadCopy(w) ==
    /\ workers[w].kind = "download" /\ workers[w].pc = "copy"
    /\ session_locked' = [session_locked EXCEPT ![workers[w].h] = FALSE]
    /\ \E local_ok \in BOOLEAN :
         LET sp  == server_path(fs, workers[w].path)
             err == IF sp \notin DOMAIN fs.files THEN "scp_recv failed"
                    ELSE IF ~local_ok THEN "local file failed" ELSE ""
         IN workers' = [workers EXCEPT ![w].pc = "result", ![w].guard = "none",
                                       ![w].err = err]
    /\ UNCHANGED <<fs, nconn, poisoned, clock, sftp_locked, channel, sent, processed, appVars, call>>

\* app.rs 276-286
DownloadReport(w) ==
    /\ workers[w].kind = "download" /\ workers[w].pc = "result"
    /\ Send(w, IF workers[w].err = ""
               THEN DownloadOk(<<"Downloaded ", to_display(workers[w].display)>>)
               ELSE DownloadErr(workers[w].err))
    /\ workers' = [workers EXCEPT ![w].pc = "done"]
    /\ UNCHANGED <<envVars, processed, appVars, call>>

(***************************************************************************)
(* app.rs: SshApp::update. The interactive thread drains the channel, one   *)
(* try_recv per step, and renders the screen once try_recv finds the       *)
(* channel empty; a handler of the screen runs in that frame, before the   *)
(* next try_recv.                                                          *)
(***************************************************************************)
\* A receive that takes the newest message: what C4 rules out
try_recv_newest(ch) == [item |-> ch[Len(ch)], rest |-> SubSeq(ch, 1, Len(ch) - 1)]

\* Receiver::try_recv on a channel that holds a message: the oldest one
try_recv(ch) == [item |-> Head(ch), rest |-> Tail(ch)]

\* encoding_rs decode: the text stands for the bytes read with that coder
decode(coder, raw) == [coder |-> coder, bytes |-> raw]

\* app.rs 790-865: the match on the message
Reduce(msg) ==
    CASE msg.type = "ConnectionResult" ->
           IF msg.ok
           THEN /\ session' = Some(msg.handle)
                /\ sftp' = Some(msg.handle)
                /\ current_path' = msg.path
                /\ status_msg' = <<"Connected.">>
                /\ is_connected' = TRUE
                /\ is_loading' = FALSE
                /\ UNCHANGED <<files, selected_file, viewing_file>>
           ELSE /\ is_loading' = FALSE
                /\ status_msg' = <<"Error: ", msg.reason>>
                /\ is_connected' = FALSE
                /\ UNCHANGED <<session, sftp, current_path, files, selected_file,
                               viewing_file>>
      [] msg.type = "ListStarted" ->
           /\ is_loading' = TRUE
           /\ files' = <<>>
           /\ selected_file' = None
           /\ current_path' = msg.path
           /\ status_msg' = <<"Listing files...">>
           /\ UNCHANGED <<session, sftp, is_connected, viewing_file>>
      [] msg.type = "SearchStarted" ->
           /\ is_loading' = TRUE
           /\ files' = <<>>
           /\ selected_file' = None
           /\ status_msg' = <<"Searching for '", to_display(msg.pattern), "'...">>
           /\ UNCHANGED <<session, sftp, is_connected, current_path, viewing_file>>
      [] msg.type = "ListBatch" ->
           /\ files' = sort_files(files \o msg.entries, sort_column, sort_direction)
           /\ UNCHANGED <<session, sftp, is_connected, selected_file, current_path,
                          viewing_file, status_msg, is_loading>>
      [] msg.type = "ListFinished" ->
           /\ is_loading' = FALSE
           /\ status_msg' = <<"Listed ", ToString(Len(files)), " files.">>
           /\ files' = sort_files(files, sort_column, sort_direction)
           /\ UNCHANGED <<session, sftp, is_connected, selected_file, current_path,
                          viewing_file>>
      [] msg.type = "ListError" ->
           /\ is_loading' = FALSE
           /\ status_msg' = <<"List error: ", msg.reason>>
           /\ UNCHANGED <<session, sftp, is_connected, files, selected_file,
                          current_path, viewing_file>>
      [] msg.type = "DownloadResult" ->
           /\ is_loading' = FALSE
           /\ status_msg' = IF msg.ok THEN msg.text ELSE <<"Download failed: ">> \o msg.text
           /\ UNCHANGED <<session, sftp, is_connected, files, selected_file,
                          current_path, viewing_file>>
      [] msg.type = "FileContentResult" ->
           /\ is_loading' = FALSE
           /\ IF msg.ok
              THEN /\ viewing_file' = Some([filename |-> msg.name,
                                            raw_content |-> msg.content,
                                            decoded_content |-> decode("Utf8", msg.content),
                                            encoding |-> "Utf8"])
                   /\ status_msg' = <<"File content loaded.">>
              ELSE /\ status_msg' = <<"Failed to read file: ", msg.reason>>
                   /\ UNCHANGED viewing_file
           /\ UNCHANGED <<session, sftp, is_connected, files, selected_file,
                          current_path>>

\* A message that has lost the text of its error.
without_reason(msg) ==
    IF msg.type = "ListError" THEN [msg EXCEPT !.reason = "error"]
    ELSE IF msg.type = "DownloadResult" /\ ~msg.ok THEN [msg EXCEPT !.text = <<"error">>]
    ELSE IF msg.type \in {"ConnectionResult", "FileContentResult"} /\ ~msg.ok
    THEN [msg EXCEPT !.reason = "error"]
    ELSE msg

\* An update that shows a fixed text for every failure.
Recv_hiding_reason ==
    /\ channel # <<>>
    /\ LET r == try_recv(channel) IN
       /\ channel' = r.rest
       /\ processed' = [processed EXCEPT ![r.item.from] = Append(@, r.item.msg)]
       /\ Reduce(without_reason(r.item.msg))
    /\ UNCHANGED <<envVars, workers, sent, search_query, recursive_search,
                   sort_column, sort_direction, call>>

\* A batch that has lost its last entry.
without_last(msg) ==
    IF msg.type = "ListBatch" /\ msg.entries # <<>>
    THEN [msg EXCEPT !.entries = SubSeq(@, 1, Len(@) - 1)]
    ELSE msg

\* An update that leaves out the last entry of every batch.
Recv_dropping_rows ==
    /\ channel # <<>>
    /\ LET r == try_recv(channel) IN
       /\ channel' = r.rest
       /\ processed' = [processed EXCEPT ![r.item.from] = Append(@, r.item.msg)]
       /\ Reduce(without_last(r.item.msg))
    /\ UNCHANGED <<envVars, workers, sent, search_query, recursive_search,
                   sort_column, sort_direction, call>>

\* An update that takes the sftp lock of the handle it holds before it
\* handles a message.
Recv_under_lock ==
    /\ channel # <<>>
    /\ sftp.some => ~sftp_locked[sftp.val]
    /\ LET r == try_recv(channel) IN
       /\ channel' = r.rest
       /\ processed' = [processed EXCEPT ![r.item.from] = Append(@, r.item.msg)]
       /\ Reduce(r.item.msg)
    /\ UNCHANGED <<envVars, workers, sent, search_query, recursive_search,
                   sort_column, sort_direction, call>>

\* app.rs 788: try_recv returned a message; the match handles it
Recv ==
    /\ channel # <<>>
    /\ LET r == try_recv(channel) IN
       /\ channel' = r.rest
       /\ processed' = [processed EXCEPT ![r.item.from] = Append(@, r.item.msg)]
       /\ Reduce(r.item.msg)
    /\ UNCHANGED <<envVars, workers, sent, search_query, recursive_search,
                   sort_column, sort_direction, call>>

\* app.rs 788 and 868-876: try_recv found the channel empty, the loop has ended
\* and the screen is rendered: the condition under which a handler of the
\* screen runs.
Rendering == channel = <<>>

(***************************************************************************)
(* app.rs: what the user does on the screen rendered after the drain. A    *)
(* handler that starts a thread is enabled while fewer than MaxWorkers     *)
(* threads have been started.                                              *)
(***************************************************************************)
MaxWorkers == 2

\* app.rs 267-273 and 490-496 and 768-774: current_path and a name, joined
remote_path(cur, name) ==
    IF ends_with(cur, "/") THEN cur \o name
    ELSE IF cur = <<>> THEN name
    ELSE cur \o <<"/">> \o name

\* SshApp::list_directory
list_directory(path) ==
    IF sftp.some THEN Spawn(Worker("list", "start", sftp.val, path))
    ELSE UNCHANGED <<workers, sent, processed>>

\* SshApp::search_files
search_files(query, recursive) ==
    IF sftp.some
    THEN Spawn([Worker("search", "start", sftp.val, current_path)
                  EXCEPT !.pattern = query, !.recursive = recursive])
    ELSE UNCHANGED <<workers, sent, processed>>

\* SshApp::view_file
view_file(name) ==
    IF sftp.some
    THEN Spawn([Worker("view", "lock", sftp.val, remote_path(current_path, name))
                  EXCEPT !.max_bytes = ViewMaxBytes])
    ELSE UNCHANGED <<workers, sent, processed>>

\* SshApp::download_file
download_file(name) ==
    IF session.some
    THEN Spawn([Worker("download", "lock", session.val, remote_path(current_path, name))
                  EXCEPT !.display = name])
    ELSE UNCHANGED <<workers, sent, processed>>

\* A connect_ssh that first drops the handles it holds.
UiConnect_dropping_handles ==
    /\ Rendering /\ ~is_connected /\ ~is_loading
    /\ Len(workers) < MaxWorkers
    /\ is_loading' = TRUE
    /\ status_msg' = <<"Connecting...">>
    /\ session' = None /\ sftp' = None
    /\ Spawn(Worker("connect", "connect", 0, <<>>))
    /\ UNCHANGED <<envVars, channel, is_connected, files, selected_file,
                   current_path, search_query, recursive_search, viewing_file,
                   sort_column, sort_direction, call>>

\* app.rs 354-358 and SshApp::connect_ssh: the Connect button of the login screen
UiConnect ==
    /\ Rendering /\ ~is_connected /\ ~is_loading
    /\ Len(workers) < MaxWorkers
    /\ is_loading' = TRUE
    /\ status_msg' = <<"Connecting...">>
    /\ Spawn(Worker("connect", "connect", 0, <<>>))
    /\ UNCHANGED <<envVars, channel, session, sftp, is_connected, files, selected_file,
                   current_path, search_query, recursive_search, viewing_file,
                   sort_column, sort_direction, call>>

\* A Disconnect that drops the session and goes on showing the browser.
UiDisconnect_staying_connected ==
    /\ Rendering /\ is_connected
    /\ session' = None
    /\ files' = <<>>
    /\ status_msg' = <<"Disconnected.">>
    /\ UNCHANGED <<envVars, workers, channel, sent, processed, sftp, selected_file,
                   current_path, search_query, recursive_search, viewing_file,
                   is_connected, is_loading, sort_column, sort_direction, call>>

\* app.rs 571-576: the Disconnect button
UiDisconnect ==
    /\ Rendering /\ is_connected
    /\ is_connected' = FALSE
    /\ session' = None
    /\ files' = <<>>
    /\ status_msg' = <<"Disconnected.">>
    /\ UNCHANGED <<envVars, workers, channel, sent, processed, sftp, selected_file,
                   current_path, search_query, recursive_search, viewing_file,
                   is_loading, sort_column, sort_direction, call>>

\* app.rs 582-599: the parent-directory button
UiUp ==
    /\ Rendering /\ is_connected
    /\ Len(workers) < MaxWorkers
    /\ LET trimmed == trim_end_matches(current_path, "/")
           idx     == rfind(trimmed, "/")
           new_path == IF idx = 1 THEN <<"/">> ELSE SubSeq(trimmed, 1, idx - 1)
       IN IF trimmed # <<>> /\ idx > 0
          THEN /\ is_loading' = TRUE
               /\ list_directory(new_path)
          ELSE UNCHANGED <<is_loading, workers, sent, processed>>
    /\ UNCHANGED <<envVars, channel, session, sftp, is_connected, files, selected_file,
                   current_path, search_query, recursive_search, viewing_file,
                   status_msg, sort_column, sort_direction, call>>

\* app.rs 602-604: typing into the address bar
UiEditPath(path) ==
    /\ Rendering /\ is_connected
    /\ current_path' = path
    /\ UNCHANGED <<envVars, workers, channel, sent, processed, session, sftp,
                   is_connected, files, selected_file, search_query, recursive_search,
                   viewing_file, status_msg, is_loading, sort_column, sort_direction,
                   call>>

\* app.rs 605-613 and 683-686: Enter in the address bar, Go, Refresh
UiGo ==
    /\ Rendering /\ is_connected
    /\ Len(workers) < MaxWorkers
    /\ is_loading' = TRUE
    /\ list_directory(current_path)
    /\ UNCHANGED <<envVars, channel, session, sftp, is_connected, files, selected_file,
                   current_path, search_query, recursive_search, viewing_file,
                   status_msg, sort_column, sort_direction, call>>

\* app.rs 662-675: the search bar: the pattern typed, the Recursive box, Search
UiSearch(query, recursive) ==
    /\ Rendering /\ is_connected
    /\ Len(workers) < MaxWorkers
    /\ search_query' = query
    /\ recursive_search' = recursive
    /\ IF query # <<>>
       THEN /\ is_loading' = TRUE
            /\ search_files(query, recursive)
       ELSE UNCHANGED <<is_loading, workers, sent, processed>>
    /\ UNCHANGED <<envVars, channel, session, sftp, is_connected, files, selected_file,
                   current_path, viewing_file, status_msg, sort_column, sort_direction,
                   call>>

\* app.rs 760-763: a click on a row
UiSelect(i) ==
    /\ Rendering /\ is_connected
    /\ i \in 1..Len(files)
    /\ selected_file' = Some(files[i])
    /\ UNCHANGED <<envVars, workers, channel, sent, processed, session, sftp,
                   is_connected, files, current_path, search_query, recursive_search,
                   viewing_file, status_msg, is_loading, sort_column, sort_direction,
                   call>>

\* app.rs 764-778: a double click on a row
UiDoubleClick(i) ==
    /\ Rendering /\ is_connected
    /\ Len(workers) < MaxWorkers
    /\ i \in 1..Len(files)
    /\ IF files[i].perm[1] = "d"
       THEN /\ is_loading' = TRUE
            /\ list_directory(remote_path(current_path, files[i].name))
       ELSE UNCHANGED <<is_loading, workers, sent, processed>>
    /\ UNCHANGED <<envVars, channel, session, sftp, is_connected, files, selected_file,
                   current_path, search_query, recursive_search, viewing_file,
                   status_msg, sort_column, sort_direction, call>>

\* app.rs 688-693: the View button
UiView ==
    /\ Rendering /\ is_connected /\ selected_file.some
    /\ Len(workers) < MaxWorkers
    /\ is_loading' = TRUE
    /\ status_msg' = <<"Reading ", to_display(selected_file.val.name), "...">>
    /\ view_file(selected_file.val.name)
    /\ UNCHANGED <<envVars, channel, session, sftp, is_connected, files, selected_file,
                   current_path, search_query, recursive_search, viewing_file,
                   sort_column, sort_direction, call>>

\* app.rs 694-702: the Download button, the file dialog answered with a path
UiDownload ==
    /\ Rendering /\ is_connected /\ selected_file.some
    /\ Len(workers) < MaxWorkers
    /\ is_loading' = TRUE
    /\ status_msg' = <<"Downloading ", to_display(selected_file.val.name), "...">>
    /\ download_file(selected_file.val.name)
    /\ UNCHANGED <<envVars, channel, session, sftp, is_connected, files, selected_file,
                   current_path, search_query, recursive_search, viewing_file,
                   sort_column, sort_direction, call>>

\* app.rs 721-738: a click on a column header; call records the click
UiSort(column) ==
    /\ Rendering /\ is_connected
    /\ LET t == trigger_sort(sort_column, sort_direction, column) IN
       /\ sort_column' = t.column
       /\ sort_direction' = t.direction
       /\ files' = sort_files(files, t.column, t.direction)
    /\ call' = [op |-> "trigger_sort", column |-> column,
                from_column |-> sort_column, from_direction |-> sort_direction]
    /\ UNCHANGED <<envVars, workers, channel, sent, processed, session, sftp,
                   is_connected, selected_file, current_path, search_query,
                   recursive_search, viewing_file, status_msg, is_loading>>

(***************************************************************************)
(* Remote hosts of the model                                               *)
(***************************************************************************)
DirPerm  == 16877   \* 0o040755
FilePerm == 33188   \* 0o100644

\* decimal digits of a number below 1000
digits(n) ==
    IF n < 10 THEN <<Digit[n + 1]>>
    ELSE IF n < 100 THEN <<Digit[(n \div 10) + 1], Digit[(n % 10) + 1]>>
    ELSE <<Digit[(n \div 100) + 1], Digit[((n \div 10) % 10) + 1], Digit[(n % 10) + 1]>>

\* The i-th entry of a generated directory: every third one a directory, sizes
\* and times partly missing.
GenEntry(i) ==
    [name |-> <<"f">> \o digits(i),
     stat |-> [perm  |-> Some(IF i % 3 = 0 THEN DirPerm ELSE FilePerm),
               size  |-> IF i % 2 = 0 THEN Some(i) ELSE None,
               mtime |-> IF i % 5 = 0 THEN None ELSE Some(U64(0, 1704067200 + 60 * i))]]

DotEntry    == [name |-> <<".">>,
                stat |-> [perm |-> Some(DirPerm), size |-> Some(4096), mtime |-> None]]
DotDotEntry == [name |-> <<".", ".">>,
                stat |-> [perm |-> Some(DirPerm), size |-> Some(4096), mtime |-> None]]

\* What a server sends for a directory of n entries: "." and ".." first, last,
\* in the middle, or not at all.
GenListing(n, dots) ==
    LET body == [i \in 1..n |-> GenEntry(i)]
    IN CASE dots = "first"  -> <<DotEntry, DotDotEntry>> \o body
         [] dots = "last"   -> body \o <<DotDotEntry, DotEntry>>
         [] dots = "middle" -> SubSeq(body, 1, n \div 2) \o <<DotEntry>>
                               \o SubSeq(body, (n \div 2) + 1, n) \o <<DotDotEntry>>
         [] OTHER           -> body

HomePath == <<"/", "h">>

\* A host whose home directory holds n generated entries
ListHost(n, dots) ==
    [home |-> HomePath,
     dirs |-> (HomePath :> GenListing(n, dots)),
     unreadable |-> {},
     files |-> <<>>]

NoCall == [op |-> "none"]

\* SshApp after a successful connect over handle h, showing path
Connected(h, path) ==
    /\ session = Some(h) /\ sftp = Some(h) /\ is_connected = TRUE
    /\ files = <<>> /\ selected_file = None /\ current_path = path
    /\ search_query = <<>> /\ recursive_search = FALSE
    /\ viewing_file = None /\ status_msg = <<"Connected.">>
    /\ sort_column = "None" /\ sort_direction = "Asc"

(***************************************************************************)
(* SpecList: one call of list_directory(path) on a connected SshApp, for   *)
(* directories of many sizes; the interactive thread drains the channel.   *)
(***************************************************************************)
MaxBatches  == 2
MaxSmallDir == 3
ListLens == {n \in 0..(MaxBatches * BatchSize + 1) :
               \/ n <= MaxSmallDir
               \/ \E k \in 1..MaxBatches : n \in {k * BatchSize - 1, k * BatchSize,
                                                  k * BatchSize + 1}}
ListPaths == {HomePath, HomePath \o <<"/">>, <<"/", "x">>}

InitList ==
    /\ \E n \in ListLens, dots \in {"first", "last", "middle", "none"} :
          fs = ListHost(n, dots)
    /\ nconn = 1 /\ sftp_locked = <<FALSE>> /\ session_locked = <<FALSE>>
    /\ poisoned = <<Sound>> /\ clock = Instants[1]
    /\ \E path \in ListPaths :
          /\ workers = << Worker("list", "start", 1, path) >>
          /\ Connected(1, path)
    /\ is_loading = TRUE
    /\ channel = <<>> /\ sent = << <<>> >> /\ processed = << <<>> >>
    /\ call = NoCall

NextList ==
    \/ \E w \in WorkerIds :
         \/ ListStart(w) \/ ListLock(w) \/ ListReaddir(w)
         \/ ListSendBatch(w) \/ ListFinish(w) \/ ListDirectoryErr(w)
    \/ Recv

SpecList == InitList /\ [][NextList]_vars

FileStat(perm, size, mtime) == [perm |-> perm, size |-> size, mtime |-> mtime]

SubDirPath == HomePath \o <<"/", "d">>

(***************************************************************************)
(* SpecSearch: one call of search_files on a connected SshApp. The host is *)
(* a small tree, of which the server may refuse to open some directories,  *)
(* or one wide directory, whose sub-directories the server does not open.  *)
(***************************************************************************)
DeepDirPath  == SubDirPath \o <<"/", "d", "d">>
OtherDirPath == HomePath \o <<"/", "e">>

TxtFile(stem) == [name |-> <<stem, ".", "t", "x", "t">>,
                  stat |-> FileStat(Some(FilePerm), Some(1), Some(U64(0, 1704067200)))]
DirNamed(name) == [name |-> name, stat |-> FileStat(Some(DirPerm), None, None)]

TreeDirs ==
    (HomePath :> << DotEntry, DotDotEntry, TxtFile("a"), DirNamed(<<"d">>),
                    [name |-> <<"b", ".", "r", "s">>,
                     stat |-> FileStat(Some(FilePerm), None, None)],
                    DirNamed(<<"e">>), TxtFile("z") >>)
    @@ (SubDirPath :> << TxtFile("c"), DirNamed(<<"d", "d">>),
                         [name |-> <<"d">>,
                          stat |-> FileStat(Some(FilePerm), Some(0), None)] >>)
    @@ (DeepDirPath :> << DotEntry, TxtFile("x"), DotDotEntry >>)
    @@ (OtherDirPath :> << TxtFile("y") >>)

TreeHosts ==
    { [home |-> HomePath, dirs |-> TreeDirs, unreadable |-> u, files |-> <<>>] :
        u \in { {}, {SubDirPath}, {DeepDirPath}, {OtherDirPath},
                {SubDirPath, OtherDirPath}, {HomePath} } }

TreePatterns ==
    { <<"*">>, <<"*", ".", "t", "x", "t">>, <<"?", ".", "r", "s">>, <<"d">>,
      <<"d", "*">>, <<"q">> }

MaxChunks == 2
WideLens == UNION { {k * ChunkSize - 1, k * ChunkSize, k * ChunkSize + 1} :
                      k \in 1..MaxChunks }
WidePatterns == { <<"*">>, <<"f", "1", "*">> }

SearchWorker(path, pattern, recursive) ==
    [Worker("search", "start", 1, path) EXCEPT !.pattern = pattern,
                                               !.recursive = recursive]

InitSearch ==
    /\ \/ \E f \in TreeHosts, path \in {HomePath, SubDirPath},
             pattern \in TreePatterns, recursive \in BOOLEAN :
             /\ fs = f /\ Connected(1, path)
             /\ workers = << SearchWorker(path, pattern, recursive) >>
       \/ \E n \in WideLens, pattern \in WidePatterns, recursive \in BOOLEAN :
             /\ fs = ListHost(n, "first") /\ Connected(1, HomePath)
             /\ workers = << SearchWorker(HomePath, pattern, recursive) >>
    /\ nconn = 1 /\ sftp_locked = <<FALSE>> /\ session_locked = <<FALSE>>
    /\ poisoned = <<Sound>> /\ clock = Instants[1]
    /\ is_loading = TRUE
    /\ channel = <<>> /\ sent = << <<>> >> /\ processed = << <<>> >>
    /\ call = NoCall

NextSearch ==
    \/ \E w \in WorkerIds :
         \/ SearchStart(w) \/ SearchLock(w) \/ SearchWalk(w)
         \/ SearchSendBatch(w) \/ SearchFinish(w) \/ SearchFilesErr(w)
    \/ Recv

SpecSearch == InitSearch /\ [][NextSearch]_vars

(***************************************************************************)
(* SpecMatch: one call of matches_pattern(name, pattern), for every short  *)
(* name and pattern over a few characters and for the pairs of the unit    *)
(* test; nothing else runs.                                                *)
(***************************************************************************)
MaxNameLen    == 3
MaxPatternLen == 2
NameChars    == {"a", "b", ".", "\n"}
PatternChars == {"a", ".", "*", "?", "\\"}

Texts(chars, n) == UNION { [1..k -> chars] : k \in 0..n }

\* ssh.rs 250-256: test_matches_pattern
TestPairs ==
    { <<  <<"t","e","s","t",".","t","x","t">>, <<"*",".","t","x","t">>  >>,
      <<  <<"f","i","l","e",".","r","s">>,     <<"f","i","l","e",".","?","s">>  >>,
      <<  <<"r","e","a","d","m","e">>,         <<"*">>  >>,
      <<  <<"t","e","s","t",".","p","d","f">>, <<"*",".","t","x","t">>  >> }

InitMatch ==
    /\ fs = ListHost(0, "none")
    /\ nconn = 0 /\ sftp_locked = <<>> /\ session_locked = <<>> /\ poisoned = <<>>
    /\ clock = Instants[1]
    /\ workers = <<>> /\ channel = <<>> /\ sent = <<>> /\ processed = <<>>
    /\ session = None /\ sftp = None /\ is_connected = FALSE
    /\ files = <<>> /\ selected_file = None /\ current_path = <<>>
    /\ search_query = <<>> /\ recursive_search = FALSE
    /\ viewing_file = None /\ status_msg = <<"Ready to connect.">>
    /\ is_loading = FALSE
    /\ sort_column = "None" /\ sort_direction = "Asc"
    /\ \E pair \in TestPairs \cup (Texts(NameChars, MaxNameLen)
                                     \X Texts(PatternChars, MaxPatternLen)) :
          call = [op |-> "matches_pattern", name |-> pair[1], pattern |-> pair[2],
                  returned |-> FALSE, result |-> FALSE]

CallMatchesPattern ==
    /\ call.op = "matches_pattern" /\ ~call.returned
    /\ call' = [call EXCEPT !.returned = TRUE,
                            !.result = matches_pattern(call.name, call.pattern)]
    /\ UNCHANGED <<envVars, thrVars, appVars>>

NextMatch == CallMatchesPattern

SpecMatch == InitMatch /\ [][NextMatch]_vars

(***************************************************************************)
(* SpecPerm: one call of format_permissions, for every mode of PermWidth   *)
(* bits and for a stat without a mode.                                     *)
(***************************************************************************)
\* An SshApp that has not connected, on a host nothing is asked of.
Unconnected ==
    /\ fs = ListHost(0, "none")
    /\ nconn = 0 /\ sftp_locked = <<>> /\ session_locked = <<>> /\ poisoned = <<>>
    /\ workers = <<>> /\ channel = <<>> /\ sent = <<>> /\ processed = <<>>
    /\ session = None /\ sftp = None /\ is_connected = FALSE
    /\ files = <<>> /\ selected_file = None /\ current_path = <<>>
    /\ search_query = <<>> /\ recursive_search = FALSE
    /\ viewing_file = None /\ status_msg = <<"Ready to connect.">>
    /\ is_loading = FALSE
    /\ sort_column = "None" /\ sort_direction = "Asc"

PermWidth == 16

PermInputs == {None} \cup { Some(p) : p \in 0..(2 ^ PermWidth - 1) }

InitPerm ==
    /\ Unconnected
    /\ clock = Instants[1]
    /\ \E perm \in PermInputs :
          call = [op |-> "format_permissions", stat |-> FileStat(perm, None, None),
                  returned |-> FALSE, dir |-> FALSE, result |-> <<>>]

\* The call; dir records what stat.is_dir() answered.
CallFormatPermissions ==
    /\ call.op = "format_permissions" /\ ~call.returned
    /\ call' = [call EXCEPT !.returned = TRUE,
                            !.dir = is_dir(call.stat),
                            !.result = format_permissions(call.stat)]
    /\ UNCHANGED <<envVars, thrVars, appVars>>

NextPerm == CallFormatPermissions

SpecPerm == InitPerm /\ [][NextPerm]_vars

(***************************************************************************)
(* SpecEntry: the FileEntry of one stat, built MaxRenders times while the  *)
(* wall clock moves on. The stats have or lack each field; the timestamps  *)
(* are inside and outside the range chrono holds.                          *)
(***************************************************************************)
MaxRenders == 2

Timestamps ==
    { U64(0, 0), U64(0, 1704067200), U64(0, 2147483647), U64(1, 0), U64(2, 1),
      U64(ChronoMaxHi, ChronoMaxLo), U64(ChronoMaxHi, ChronoMaxLo + 1),
      U64(ChronoMaxHi + 1, 0), U64(2147483647, 0) }

StatInputs ==
    { FileStat(perm, size, mtime) :
        perm  \in {None, Some(FilePerm), Some(DirPerm)},
        size  \in {None, Some(0), Some(7)},
        mtime \in {None} \cup { Some(t) : t \in Timestamps } }

InitEntry ==
    /\ Unconnected
    /\ clock = Instants[1]
    /\ \E stat \in StatInputs :
          call = [op |-> "FileEntry", name |-> <<"a">>, stat |-> stat, renders |-> <<>>]

\* ssh.rs 54-59 and 106-111: the entry is built
CallFileEntry ==
    /\ call.op = "FileEntry" /\ Len(call.renders) < MaxRenders
    /\ call' = [call EXCEPT !.renders = Append(@, FileEntry(call.name, call.stat))]
    /\ UNCHANGED <<envVars, thrVars, appVars>>

\* Time passes.
Tick ==
    /\ clock = Instants[1]
    /\ clock' = Instants[2]
    /\ UNCHANGED <<fs, nconn, sftp_locked, session_locked, poisoned, thrVars, appVars,
                   call>>

NextEntry == CallFileEntry \/ Tick

SpecEntry == InitEntry /\ [][NextEntry]_vars

(***************************************************************************)
(* Spec: the whole program on a small host. The home directory holds a     *)
(* file and a directory; on the second host the server refuses to open the *)
(* home directory.                                                         *)
(***************************************************************************)
SmallDirs ==
    (HomePath :> << DotEntry, DotDotEntry,
                    [name |-> <<"a">>,
                     stat |-> FileStat(Some(FilePerm), Some(2), Some(U64(0, 1704067200)))],
                    [name |-> <<"d">>,
                     stat |-> FileStat(Some(DirPerm), None, None)] >>)
    @@ (SubDirPath :> << [name |-> <<"b">>,
                          stat |-> FileStat(Some(FilePerm), Some(1), None)] >>)

SmallFiles ==
    (HomePath \o <<"/", "a">> :> <<1, 2>>) @@ (SubDirPath \o <<"/", "b">> :> <<3>>)

SmallHosts ==
    { [home |-> HomePath, dirs |-> SmallDirs, unreadable |-> u, files |-> SmallFiles] :
        u \in {{}, {HomePath}} }

SearchPatterns == { <<"*">> }

\* SshApp::new
Init ==
    /\ fs \in SmallHosts
    /\ nconn = 0 /\ sftp_locked = <<>> /\ session_locked = <<>> /\ poisoned = <<>>
    /\ clock = Instants[1]
    /\ workers = <<>> /\ channel = <<>> /\ sent = <<>> /\ processed = <<>>
    /\ session = None /\ sftp = None /\ is_connected = FALSE
    /\ files = <<>> /\ selected_file = None /\ current_path = <<>>
    /\ search_query = <<>> /\ recursive_search = FALSE
    /\ viewing_file = None /\ status_msg = <<"Ready to connect.">>
    /\ is_loading = FALSE
    /\ sort_column = "None" /\ sort_direction = "Asc"
    /\ call = NoCall

WorkerStep(w) ==
    \/ ConnectWorker(w) \/ ConnectListErr(w)
    \/ ListStart(w) \/ ListLock(w) \/ ListReaddir(w)
    \/ ListSendBatch(w) \/ ListFinish(w) \/ ListDirectoryErr(w)
    \/ SearchStart(w) \/ SearchLock(w) \/ SearchWalk(w)
    \/ SearchSendBatch(w) \/ SearchFinish(w) \/ SearchFilesErr(w)
    \/ ViewLock(w) \/ ViewOpen(w) \/ ViewRead(w) \/ ViewFileErr(w)
    \/ DownloadLock(w) \/ DownloadCopy(w) \/ DownloadReport(w)

UiStep ==
    \/ Recv
    \/ UiConnect \/ UiDisconnect \/ UiUp \/ UiGo
    \/ \E q \in SearchPatterns, r \in BOOLEAN : UiSearch(q, r)
    \/ \E i \in 1..Len(files) : UiSelect(i) \/ UiDoubleClick(i)
    \/ UiView \/ UiDownload

Next == (\E w \in WorkerIds : WorkerStep(w)) \/ UiStep

Spec == Init /\ [][Next]_vars

(***************************************************************************)
(* SpecFair: Spec with the scheduler of the operating system and a server  *)
(* that answers: a thread that can take a step is not left waiting         *)
(* forever, and a readdir that was sent returns. Nothing is assumed about  *)
(* the user or about the frames of the interactive thread.                 *)
(***************************************************************************)
\* The steps of thread w other than the return of readdir
LocalStep(w) ==
    \/ ConnectWorker(w) \/ ConnectListErr(w)
    \/ ListStart(w) \/ ListLock(w)
    \/ ListSendBatch(w) \/ ListFinish(w) \/ ListDirectoryErr(w)
    \/ SearchStart(w) \/ SearchLock(w)
    \/ SearchSendBatch(w) \/ SearchFinish(w) \/ SearchFilesErr(w)
    \/ ViewLock(w) \/ ViewOpen(w) \/ ViewRead(w) \/ ViewFileErr(w)
    \/ DownloadLock(w) \/ DownloadCopy(w) \/ DownloadReport(w)

Scheduled(w) == WF_vars(w \in WorkerIds /\ LocalStep(w))

\* Thread w is inside sftp.readdir (ssh.rs 42) or the walk of
\* search_recursive (ssh.rs 124).
InReaddir(w) == w \in WorkerIds /\ workers[w].pc \in {"readdir", "walk"}

\* Weak fairness of the return of readdir, which is enabled exactly while the
\* thread is inside the call.
ReaddirReturns(w) ==
    \/ []<>(~InReaddir(w))
    \/ []<><<w \in WorkerIds /\ (ListReaddir(w) \/ SearchWalk(w))>>_vars

SpecFair ==
    /\ Init /\ [][Next]_vars
    /\ \A w \in 1..MaxWorkers : Scheduled(w) /\ ReaddirReturns(w)

(***************************************************************************)
(* SpecOps: the operations of a connected SshApp that shows its home       *)
(* directory with a row selected, on a handle whose Mutexes are sound or   *)
(* were poisoned by a thread that panicked under the guard. The directory  *)
(* lists a file, a directory and a name that cannot be opened.             *)
(***************************************************************************)
OpsDirs ==
    (HomePath :> << [name |-> <<"a">>,
                     stat |-> FileStat(Some(FilePerm), Some(2), Some(U64(0, 1704067200)))],
                    [name |-> <<"d">>,
                     stat |-> FileStat(Some(DirPerm), None, None)],
                    [name |-> <<"g">>,
                     stat |-> FileStat(Some(FilePerm), Some(0), None)] >>)
    @@ (SubDirPath :> << >>)

OpsHost ==
    [home |-> HomePath, dirs |-> OpsDirs, unreadable |-> {},
     files |-> (HomePath \o <<"/", "a">> :> <<1, 2>>)]

\* What the screen shows once a directory of fewer than BatchSize entries is
\* listed.
Listed(f, path) ==
    LET batches == list_batches(readdir(f, path).entries)
    IN IF batches = <<>> THEN <<>> ELSE batches[1]

InitOps ==
    /\ fs = OpsHost
    /\ nconn = 1 /\ sftp_locked = <<FALSE>> /\ session_locked = <<FALSE>>
    /\ poisoned \in { <<p>> : p \in [sftp : BOOLEAN, session : BOOLEAN] }
    /\ clock = Instants[1]
    /\ workers = <<>> /\ channel = <<>> /\ sent = <<>> /\ processed = <<>>
    /\ session = Some(1) /\ sftp = Some(1) /\ is_connected = TRUE
    /\ files = Listed(OpsHost, HomePath)
    /\ selected_file \in { Some(files[i]) : i \in 1..Len(files) }
    /\ current_path = HomePath
    /\ search_query = <<>> /\ recursive_search = FALSE
    /\ viewing_file = None /\ status_msg = <<"Listed ", "3", " files.">>
    /\ is_loading = FALSE
    /\ sort_column = "None" /\ sort_direction = "Asc"
    /\ call = NoCall

NextOps ==
    \/ \E w \in WorkerIds :
         \/ ListStart(w) \/ ListLock(w) \/ ListReaddir(w)
         \/ ListSendBatch(w) \/ ListFinish(w) \/ ListDirectoryErr(w)
         \/ SearchStart(w) \/ SearchLock(w) \/ SearchWalk(w)
         \/ SearchSendBatch(w) \/ SearchFinish(w) \/ SearchFilesErr(w)
         \/ ViewLock(w) \/ ViewOpen(w) \/ ViewRead(w) \/ ViewFileErr(w)
         \/ DownloadLock(w) \/ DownloadCopy(w) \/ DownloadReport(w)
    \/ Recv
    \/ UiGo
    \/ \E q \in SearchPatterns : UiSearch(q, FALSE)
    \/ UiView \/ UiDownload

SpecOps == InitOps /\ [][NextOps]_vars

(***************************************************************************)
(* SpecRead: one run of read_file_content(sftp, remote_path, max_bytes)    *)
(* under view_file's closure, for files shorter and longer than the        *)
(* buffer, a directory and a missing name.                                 *)
(***************************************************************************)
MaxFileLen == 4
MaxCap     == 3

ReadFilePath == HomePath \o <<"/", "a">>

ReadHost(len) ==
    [home |-> HomePath, dirs |-> (HomePath :> << >>), unreadable |-> {},
     files |-> (ReadFilePath :> [i \in 1..len |-> i])]

ReadPaths == {ReadFilePath, HomePath, HomePath \o <<"/", "x">>}

InitRead ==
    /\ \E len \in 0..MaxFileLen : fs = ReadHost(len)
    /\ nconn = 1 /\ sftp_locked = <<FALSE>> /\ session_locked = <<FALSE>>
    /\ poisoned = <<Sound>> /\ clock = Instants[1]
    /\ \E path \in ReadPaths, max_bytes \in 0..MaxCap :
          workers = << [Worker("view", "lock", 1, path) EXCEPT !.max_bytes = max_bytes] >>
    /\ Connected(1, HomePath)
    /\ is_loading = TRUE
    /\ channel = <<>> /\ sent = << <<>> >> /\ processed = << <<>> >>
    /\ call = NoCall

NextRead ==
    \/ \E w \in WorkerIds : ViewLock(w) \/ ViewOpen(w) \/ ViewRead(w) \/ ViewFileErr(w)
    \/ Recv

SpecRead == InitRead /\ [][NextRead]_vars

(***************************************************************************)
(* SpecSort: a connected SshApp after Refresh was pressed twice: two       *)
(* listings of the home directory run and their batches arrive in any      *)
(* order, while the column headers are clicked. The entries have equal     *)
(* permissions, sizes and dates among them, and each name arrives twice.   *)
(***************************************************************************)
SortDirs ==
    (HomePath :> << [name |-> <<"b">>,
                     stat |-> FileStat(Some(FilePerm), Some(2), Some(U64(0, 1704067200)))],
                    [name |-> <<"a">>,
                     stat |-> FileStat(Some(DirPerm), Some(2), None)],
                    [name |-> <<"c">>,
                     stat |-> FileStat(Some(FilePerm), Some(1), None)] >>)

SortHost == [home |-> HomePath, dirs |-> SortDirs, unreadable |-> {},
             files |-> << >>]

SortColumns == {"Permission", "Size", "Date", "Name"}

InitSort ==
    /\ fs = SortHost
    /\ nconn = 1 /\ sftp_locked = <<FALSE>> /\ session_locked = <<FALSE>>
    /\ poisoned = <<Sound>> /\ clock = Instants[1]
    /\ workers = << Worker("list", "start", 1, HomePath),
                    Worker("list", "start", 1, HomePath) >>
    /\ Connected(1, HomePath)
    /\ is_loading = TRUE
    /\ channel = <<>> /\ sent = << <<>>, <<>> >> /\ processed = << <<>>, <<>> >>
    /\ call = NoCall

NextSort ==
    \/ \E w \in WorkerIds :
         \/ ListStart(w) \/ ListLock(w) \/ ListReaddir(w)
         \/ ListSendBatch(w) \/ ListFinish(w)
    \/ Recv
    \/ \E column \in SortColumns : UiSort(column)

SpecSort == InitSort /\ [][NextSort]_vars

(***************************************************************************)
(* SpecPath: a connected SshApp that shows its home directory with a row   *)
(* selected, while the address bar is edited and View and Download are     *)
(* pressed. The address bar is bound to current_path, so what is typed is  *)
(* what view_file and download_file join to the file name.                 *)
(***************************************************************************)
EditPaths ==
    { <<>>, <<"/">>, HomePath, HomePath \o <<"/">>, HomePath \o <<"/", "/">> }

InitPath ==
    /\ fs = OpsHost
    /\ nconn = 1 /\ sftp_locked = <<FALSE>> /\ session_locked = <<FALSE>>
    /\ poisoned = <<Sound>> /\ clock = Instants[1]
    /\ workers = <<>> /\ channel = <<>> /\ sent = <<>> /\ processed = <<>>
    /\ session = Some(1) /\ sftp = Some(1) /\ is_connected = TRUE
    /\ files = Listed(OpsHost, HomePath)
    /\ selected_file \in { Some(files[i]) : i \in 1..Len(files) }
    /\ current_path = HomePath
    /\ search_query = <<>> /\ recursive_search = FALSE
    /\ viewing_file = None /\ status_msg = <<"Listed ", "3", " files.">>
    /\ is_loading = FALSE
    /\ sort_column = "None" /\ sort_direction = "Asc"
    /\ call = NoCall

NextPath ==
    \/ \E w \in WorkerIds :
         \/ ViewLock(w) \/ ViewOpen(w) \/ ViewRead(w) \/ ViewFileErr(w)
         \/ DownloadLock(w) \/ DownloadCopy(w) \/ DownloadReport(w)
    \/ Recv
    \/ \E path \in EditPaths : UiEditPath(path)
    \/ UiView \/ UiDownload

SpecPath == InitPath /\ [][NextPath]_vars

(***************************************************************************)
(* Histories, as the claims read them                                      *)
(***************************************************************************)
\* The payloads of the ListBatch messages of a history, in its order
BatchesOf(hist) ==
    LET b == SelectSeq(hist, LAMBDA m : m.type = "ListBatch")
    IN [i \in 1..Len(b) |-> b[i].entries]

RECURSIVE Concat(_)
Concat(seqs) == IF seqs = <<>> THEN <<>> ELSE Head(seqs) \o Concat(Tail(seqs))

IsTerminal(m) == m.type \in {"ListFinished", "ListError"}

\* The entries of the directory path names on host f, as the server holds
\* them, without "." and "..", each as the FileEntry of its name and stat.
ServerEntries(f, path) ==
    LET raw  == f.dirs[server_path(f, path)]
        kept == SelectSeq(raw, LAMBDA e : ~IsDotName(e.name))
    IN [i \in 1..Len(kept) |-> FileEntry(kept[i].name, kept[i].stat)]

IsPrefix(a, b) == Len(a) <= Len(b) /\ a = SubSeq(b, 1, Len(a))

\* The messages worker w sent as list_files_streaming ran: all of them for a
\* thread of list_directory, those after ConnectionResult for a connect thread.
ListRun(w) ==
    IF workers[w].kind = "connect"
    THEN SelectSeq(sent[w], LAMBDA m : m.type # "ConnectionResult")
    ELSE sent[w]

\* Worker w entered list_files_streaming and its thread has ended
ListRunOver(w) ==
    /\ RunsList(w) /\ workers[w].pc = "done"
    /\ workers[w].kind = "connect" => workers[w].h # 0

\* ListStarted(path), then ListBatch messages, then one terminal message
IsListSequence(run, path) ==
    /\ Len(run) >= 2
    /\ run[1] = ListStarted(path)
    /\ IsTerminal(run[Len(run)])
    /\ \A i \in 2..(Len(run) - 1) : run[i].type = "ListBatch"

(***************************************************************************)
(* C1: every run of list_files_streaming, by a thread of list_directory or *)
(* by the connect thread after a successful connect, puts on the channel   *)
(* one ListStarted(path), then zero or more ListBatch, then exactly one    *)
(* terminal message (ListFinished or ListError), and nothing after it.     *)
(* Stated of every run whose thread has ended. The connect thread drops    *)
(* the Err of its listing (app.rs 185), so its run ends with no terminal   *)
(* message when the readdir of the initial path fails.                     *)
(***************************************************************************)
C1_ListRunSequence ==
    \A w \in WorkerIds :
      ListRunOver(w) => IsListSequence(ListRun(w), workers[w].path)

(***************************************************************************)
(* C2: the ListBatch payloads of one list call, joined in delivery order,  *)
(* are the entries of the directory other than "." and "..", each once and *)
(* in the order of the enumeration, and no batch holds more than 200       *)
(* entries. While the call runs, what has been delivered is the beginning  *)
(* of that sequence.                                                       *)
(***************************************************************************)
C2_BatchesAreTheListing ==
    \A w \in WorkerIds :
      workers[w].kind = "list" /\ readdir(fs, workers[w].path).ok =>
        LET delivered == BatchesOf(processed[w])
            expected  == ServerEntries(fs, workers[w].path)
        IN /\ \A i \in 1..Len(delivered) : Len(delivered[i]) <= 200
           /\ IsPrefix(Concat(delivered), expected)
           /\ (processed[w] # <<>> /\ processed[w][Len(processed[w])].type = "ListFinished"
                 => Concat(delivered) = expected)

\* A listing of more than 400 entries, "." and ".." among what the server
\* sent, has been delivered in three batches and finished.
C2_Witness ==
    \E w \in WorkerIds :
      /\ workers[w].kind = "list"
      /\ processed[w] # <<>> /\ processed[w][Len(processed[w])].type = "ListFinished"
      /\ Len(BatchesOf(processed[w])) = 3
      /\ \E i \in 1..Len(fs.dirs[HomePath]) : IsDotName(fs.dirs[HomePath][i].name)

(***************************************************************************)
(* C3: at no time do two workers hold the sftp lock of the same handle, a  *)
(* lock is held exactly while some worker has its guard, and a worker that *)
(* has reached lock() while another worker has the guard can take no step. *)
(***************************************************************************)
SftpHolders(h) == {w \in WorkerIds : workers[w].h = h /\ workers[w].guard = "sftp"}

AtSftpLock(w) ==
    /\ workers[w].kind \in {"connect", "list", "search", "view"}
    /\ workers[w].pc = "lock"

C3_SftpMutualExclusion ==
    /\ \A h \in 1..nconn :
         /\ Cardinality(SftpHolders(h)) <= 1
         /\ sftp_locked[h] <=> SftpHolders(h) # {}
    /\ \A w \in WorkerIds :
         AtSftpLock(w) /\ SftpHolders(workers[w].h) # {} => ~ENABLED WorkerStep(w)

\* A worker waits at lock() while another worker of the same handle is inside
\* its remote section.
C3_Witness ==
    \E w \in WorkerIds :
      AtSftpLock(w) /\ SftpHolders(workers[w].h) \ {w} # {}

(***************************************************************************)
(* C4: every message a worker sent is processed exactly once and in the    *)
(* order it was sent: at every moment what was processed of a worker,      *)
(* followed by what the channel still holds of it, is what it sent.        *)
(* Messages of different workers are in the channel in any order.          *)
(***************************************************************************)
InFlight(w) ==
    LET mine == SelectSeq(channel, LAMBDA e : e.from = w)
    IN [i \in 1..Len(mine) |-> mine[i].msg]

C4_ProcessedOnceInOrder ==
    /\ Len(sent) = Len(workers) /\ Len(processed) = Len(workers)
    /\ \A w \in WorkerIds : processed[w] \o InFlight(w) = sent[w]

\* The channel holds a message of one worker between two of another, and the
\* first of them has had messages processed already.
C4_Witness ==
    \E i, j, k \in 1..Len(channel) :
      /\ i < j /\ j < k
      /\ channel[i].from = channel[k].from
      /\ channel[i].from # channel[j].from
      /\ processed[channel[i].from] # <<>>

\* The directory tree as the server holds it, walked depth first, every entry
\* before what lies below it: the entries other than "." and ".." of the
\* directory with absolute path key, each with its own absolute path; a
\* directory the server does not open contributes nothing below it.
RECURSIVE Walk(_, _, _)
RECURSIVE WalkRange(_, _, _, _, _)
Walk(f, key, deep) ==
    IF key \notin DOMAIN f.dirs \/ key \in f.unreadable THEN <<>>
    ELSE WalkRange(f, key, deep, 1, Len(f.dirs[key]))

WalkRange(f, key, deep, lo, hi) ==
    IF lo > hi THEN <<>>
    ELSE IF lo = hi
    THEN LET e   == f.dirs[key][lo]
             sub == key \o <<"/">> \o e.name
         IN IF IsDotName(e.name) THEN <<>>
            ELSE << [name |-> e.name, stat |-> e.stat, key |-> sub] >>
                 \o (IF deep /\ is_dir(e.stat) THEN Walk(f, sub, deep) ELSE <<>>)
    ELSE LET mid == (lo + hi) \div 2
         IN WalkRange(f, key, deep, lo, mid) \o WalkRange(f, key, deep, mid + 1, hi)

\* The directories met by the walk that the server does not open
Closed(f, key, deep) ==
    LET all == Walk(f, key, deep)
    IN IF ~deep THEN {}
       ELSE { all[i].key : i \in { j \in 1..Len(all) :
                                    /\ is_dir(all[j].stat)
                                    /\ \/ all[j].key \notin DOMAIN f.dirs
                                       \/ all[j].key \in f.unreadable } }

\* The FileEntry of every entry of the walk whose name matches the pattern
Matching(f, key, pattern, deep) ==
    LET hits == SelectSeq(Walk(f, key, deep),
                          LAMBDA e : matches_pattern(e.name, pattern))
    IN [i \in 1..Len(hits) |-> FileEntry(hits[i].name, hits[i].stat)]

IsSearch(w) == workers[w].kind = "search"
BaseKey(w) == server_path(fs, workers[w].path)
BaseOpens(w) == readdir(fs, workers[w].path).ok
LastIs(hist, type) == hist # <<>> /\ hist[Len(hist)].type = type

(***************************************************************************)
(* C5: a search sends SearchStarted(pattern) first, sends no ListBatch     *)
(* while the traversal has not returned, and then sends what the traversal *)
(* collected as ListBatch messages of at most 200 entries and exactly one  *)
(* ListFinished after them; when the readdir of base_path fails it sends   *)
(* SearchStarted, no batch and exactly one ListError.                      *)
(***************************************************************************)
C5_SearchSequence ==
    \A w \in WorkerIds :
      IsSearch(w) =>
        LET run     == sent[w]
            batches == BatchesOf(run)
        IN /\ run # <<>> => run[1] = SearchStarted(workers[w].pattern)
           /\ \A i \in 2..Len(run) :
                /\ run[i].type \in {"ListBatch", "ListFinished", "ListError"}
                /\ IsTerminal(run[i]) => i = Len(run)
           /\ workers[w].pc \in {"start", "lock", "walk", "failed"} => batches = <<>>
           /\ \A i \in 1..Len(batches) :
                Len(batches[i]) >= 1 /\ Len(batches[i]) <= 200
           /\ workers[w].pc = "done" =>
                IF BaseOpens(w)
                THEN /\ LastIs(run, "ListFinished")
                     /\ Len(run) = Len(batches) + 2
                     /\ Concat(batches) =
                          search_recursive(fs, workers[w].path, workers[w].pattern,
                                           workers[w].recursive,
                                           [results |-> <<>>, trips |-> 0]).results
                ELSE /\ Len(run) = 2 /\ LastIs(run, "ListError")

\* A search that collected more than 200 entries has sent them in more than
\* one batch and has ended.
C5_Witness ==
    \E w \in WorkerIds :
      /\ IsSearch(w) /\ workers[w].pc = "done"
      /\ Len(BatchesOf(sent[w])) >= 2
      /\ LastIs(sent[w], "ListFinished")

(***************************************************************************)
(* C6: over a tree whose directories the server all opens, the entries a   *)
(* search delivers are the entries other than "." and ".." whose name      *)
(* matches the pattern: those of base_path alone when recursive is false,  *)
(* those of every directory below it when recursive is true, whether or    *)
(* not the directory matched; each once, every entry before what lies      *)
(* below it. What has been delivered before the end is the beginning of    *)
(* that sequence.                                                          *)
(***************************************************************************)
C6_SearchFindsTheMatches ==
    \A w \in WorkerIds :
      IsSearch(w) /\ BaseOpens(w) /\ Closed(fs, BaseKey(w), workers[w].recursive) = {} =>
        LET delivered == Concat(BatchesOf(processed[w]))
            expected  == Matching(fs, BaseKey(w), workers[w].pattern,
                                  workers[w].recursive)
        IN /\ IsPrefix(delivered, expected)
           /\ LastIs(processed[w], "ListFinished") => delivered = expected

\* A recursive search for "*.txt" from the home directory of the tree, all of
\* it readable, has ended: it delivered files of directories that did not
\* match, two levels down.
C6_Witness ==
    \E w \in WorkerIds :
      /\ IsSearch(w) /\ workers[w].recursive /\ workers[w].path = HomePath
      /\ workers[w].pattern = <<"*", ".", "t", "x", "t">>
      /\ DeepDirPath \in DOMAIN fs.dirs /\ fs.unreadable = {}
      /\ LastIs(processed[w], "ListFinished")
      /\ Len(Concat(BatchesOf(processed[w]))) = 5

(***************************************************************************)
(* C7: a recursive search that meets a directory below base_path which the *)
(* server does not open never sends ListError, ends with ListFinished, and *)
(* has then sent every match of the tree outside what lies below such      *)
(* directories, those beside and after them included.                      *)
(***************************************************************************)
C7_ClosedDirectorySkipped ==
    \A w \in WorkerIds :
      IsSearch(w) /\ workers[w].recursive /\ BaseOpens(w)
        /\ Closed(fs, BaseKey(w), TRUE) # {} =>
          /\ \A i \in 1..Len(sent[w]) : sent[w][i].type # "ListError"
          /\ workers[w].pc # "failed"
          /\ workers[w].pc = "done" =>
               /\ LastIs(sent[w], "ListFinished")
               /\ Concat(BatchesOf(sent[w])) =
                    Matching(fs, BaseKey(w), workers[w].pattern, TRUE)

\* The server does not open /h/d; the search for "*.txt" from /h has ended
\* with the three files outside /h/d, two of them listed after d.
C7_Witness ==
    \E w \in WorkerIds :
      /\ IsSearch(w) /\ workers[w].recursive /\ workers[w].path = HomePath
      /\ workers[w].pattern = <<"*", ".", "t", "x", "t">>
      /\ fs.unreadable = {SubDirPath} /\ workers[w].pc = "done"
      /\ LastIs(sent[w], "ListFinished")
      /\ Len(Concat(BatchesOf(sent[w]))) = 3

\* The whole of name matches the glob pattern: "*" stands for any characters,
\* none included, "?" for any one character, every other character for itself.
RECURSIVE Glob(_, _)
Glob(name, pattern) ==
    IF pattern = <<>> THEN name = <<>>
    ELSE IF Head(pattern) = "*"
         THEN Glob(name, Tail(pattern)) \/ (name # <<>> /\ Glob(Tail(name), pattern))
    ELSE IF Head(pattern) = "?"
         THEN name # <<>> /\ Glob(Tail(name), Tail(pattern))
    ELSE name # <<>> /\ Head(name) = Head(pattern) /\ Glob(Tail(name), Tail(pattern))

(***************************************************************************)
(* C8: for every name and every pattern of literal characters, "*" and     *)
(* "?", matches_pattern(name, pattern) is true exactly when the whole name *)
(* matches the pattern as a glob, "*" and "?" standing for arbitrary       *)
(* characters. The "." the pattern is translated to does not match a line  *)
(* feed, which a file name may hold.                                       *)
(***************************************************************************)
C8_MatchesIsGlob ==
    call.op = "matches_pattern" /\ call.returned =>
      call.result = Glob(call.name, call.pattern)

(***************************************************************************)
(* C9: a listing whose readdir fails sends ListStarted, no ListBatch, and  *)
(* then ListError. Stated of every run of list_files_streaming whose       *)
(* thread has ended; the run of the connect thread ends after ListStarted  *)
(* (app.rs 185, as for C1).                                                *)
(***************************************************************************)
C9_FailedListingReports ==
    \A w \in WorkerIds :
      ListRunOver(w) /\ ~readdir(fs, workers[w].path).ok =>
        /\ Len(ListRun(w)) = 2
        /\ ListRun(w)[1] = ListStarted(workers[w].path)
        /\ ListRun(w)[2].type = "ListError"

(***************************************************************************)
(* C10: the two locks of a handle are independent: a download that has     *)
(* reached lock() can take it whenever no download holds the session lock, *)
(* whoever holds the sftp lock, and a list, search or content read that    *)
(* has reached lock() can take it whenever the sftp lock is free, whoever  *)
(* holds the session lock.                                                 *)
(***************************************************************************)
C10_LocksIndependent ==
    \A w \in WorkerIds :
      /\ workers[w].kind = "download" /\ workers[w].pc = "lock"
            => (ENABLED WorkerStep(w) <=> ~session_locked[workers[w].h])
      /\ AtSftpLock(w) => (ENABLED WorkerStep(w) <=> ~sftp_locked[workers[w].h])

\* A download holds the session lock while another worker of the same handle
\* holds the sftp lock.
C10_Witness ==
    \E d, l \in WorkerIds :
      /\ workers[d].kind = "download" /\ workers[d].guard = "session"
      /\ workers[l].guard = "sftp" /\ workers[l].h = workers[d].h

(***************************************************************************)
(* C11: no operation keeps the sftp guard across more than one remote      *)
(* request, the readdir of a listing apart: of every worker that has the   *)
(* guard, the requests made under it and the one it is about to make under *)
(* it are at most one. search_files_streaming takes the guard once before  *)
(* the whole traversal (ssh.rs 85) and read_file_content once before open  *)
(* and read (ssh.rs 153).                                                  *)
(***************************************************************************)
RequestsUnderGuard(w) ==
    workers[w].trips + (IF workers[w].kind = "view" /\ workers[w].pc = "read" THEN 1 ELSE 0)

C11_OneRequestPerGuard ==
    \A w \in WorkerIds :
      workers[w].guard = "sftp" => RequestsUnderGuard(w) <= 1

\* The step processes a message of worker w.
Processes(w) == Len(processed'[w]) = Len(processed[w]) + 1

\* The message the step processes, when it processes one of worker w.
Processed(w) == processed'[w][Len(processed'[w])]

\* The step processes a ConnectionResult that is Ok (ok = TRUE) or Err.
ProcessesConnectionResult(ok) ==
    \E w \in WorkerIds :
      Processes(w) /\ Processed(w).type = "ConnectionResult" /\ Processed(w).ok = ok

\* The step is connect_ssh starting a connect worker.
StartsConnect ==
    /\ Len(workers') = Len(workers) + 1
    /\ workers'[Len(workers')].kind = "connect"

(***************************************************************************)
(* C12: a failed connect attempt leaves the held handles alone: the step   *)
(* that starts a connect worker changes neither session nor sftp, the step *)
(* that processes ConnectionResult(Err) changes neither, and a step after  *)
(* which session or sftp holds a handle it did not hold before is the      *)
(* processing of ConnectionResult(Ok).                                     *)
(***************************************************************************)
C12_FailedConnectKeepsHandles ==
    [][ /\ StartsConnect => UNCHANGED <<session, sftp>>
        /\ ProcessesConnectionResult(FALSE) => UNCHANGED <<session, sftp>>
        /\ (  (session'.some /\ session' # session)
            \/ (sftp'.some /\ sftp' # sftp) ) => ProcessesConnectionResult(TRUE)
      ]_vars

\* A ConnectionResult(Err) was processed while a handle of an earlier
\* connection is held.
C12_Witness ==
    /\ sftp.some
    /\ \E w \in WorkerIds :
         /\ workers[w].kind = "connect"
         /\ LastIs(processed[w], "ConnectionResult")
         /\ ~processed[w][1].ok
         /\ \E v \in WorkerIds : v < w /\ workers[v].h = sftp.val

\* The steps the claim names, in the order it gives them.
NamedSteps == <<"dial", "handshake", "auth", "sftp", "realpath">>

IsNamedStep(x) == \E i \in 1..Len(NamedSteps) : NamedSteps[i] = x

\* The connect workers that have run connect_session.
Attempted == { w \in WorkerIds : workers[w].kind = "connect" /\ workers[w].pc # "connect" }

(***************************************************************************)
(* C13: connect_session attempts dial, handshake, authentication, sftp     *)
(* initialization and path resolution in that order; of a connect worker   *)
(* whose attempt failed, the failed step is the last one attempted, the    *)
(* worker has no handle and created no lock, it is done, and what it sent  *)
(* is exactly one ConnectionResult(Err) carrying the error.                *)
(***************************************************************************)
C13_ConnectStopsAtFailure ==
    /\ nconn = Cardinality({ w \in Attempted : workers[w].h # 0 })
    /\ Len(sftp_locked) = nconn /\ Len(session_locked) = nconn
    /\ \A w \in Attempted :
         LET wk == workers[w] IN
         /\ IsPrefix(SelectSeq(wk.stages, IsNamedStep), NamedSteps)
         /\ IF wk.h = 0
            THEN /\ wk.stages # <<>>
                 /\ wk.err = wk.stages[Len(wk.stages)] \o " failed"
                 /\ wk.pc = "done"
                 /\ Len(sent[w]) = 1
                 /\ sent[w][1].type = "ConnectionResult" /\ ~sent[w][1].ok
                 /\ sent[w][1].reason = wk.err /\ sent[w][1].handle = 0
            ELSE /\ SelectSeq(wk.stages, IsNamedStep) = NamedSteps
                 /\ wk.h \in 1..nconn
                 /\ sent[w][1].type = "ConnectionResult" /\ sent[w][1].ok

\* A connect worker whose authentication failed: dial and handshake were
\* attempted before it, nothing after it.
C13_Witness ==
    \E w \in Attempted :
      /\ workers[w].err = "auth failed"
      /\ SelectSeq(workers[w].stages, IsNamedStep) = <<"dial", "handshake", "auth">>
      /\ Len(sent[w]) = 1

\* The type of the one message a download or content-read worker sends.
ResultType(kind) == IF kind = "download" THEN "DownloadResult" ELSE "FileContentResult"

(***************************************************************************)
(* C14: a download worker sends exactly one DownloadResult and a           *)
(* content-read worker exactly one FileContentResult, and nothing else: at *)
(* no time has such a worker sent more than one message or a message of    *)
(* another type, and once it is done it has sent its one message, whether  *)
(* the lock was sound or poisoned and whether the remote calls succeeded.  *)
(***************************************************************************)
C14_OneResultPerWorker ==
    \A w \in WorkerIds :
      workers[w].kind \in {"download", "view"} =>
        /\ Len(sent[w]) <= 1
        /\ \A i \in 1..Len(sent[w]) : sent[w][i].type = ResultType(workers[w].kind)
        /\ workers[w].pc = "done" => Len(sent[w]) = 1

\* A download worker that found the session lock poisoned and a content-read
\* worker whose read succeeded are both done.
C14_Witness ==
    \E w, v \in WorkerIds :
      /\ workers[w].kind = "download" /\ workers[w].pc = "done"
      /\ workers[w].err = "Failed to lock session" /\ ~sent[w][1].ok
      /\ workers[v].kind = "view" /\ workers[v].pc = "done" /\ sent[v][1].ok

\* The lock worker w acquires is poisoned.
MeetsPoison(w) ==
    IF workers[w].kind = "download" THEN poisoned[workers[w].h].session
    ELSE poisoned[workers[w].h].sftp

\* The positions at which a worker has a guard and makes or has made remote
\* requests.
RemotePcs == {"readdir", "walk", "open", "read", "copy", "send"}

\* The terminal message of an operation whose lock() failed.
PoisonOutcome(kind) ==
    CASE kind = "download" -> [type |-> "DownloadResult", ok |-> FALSE,
                               text |-> <<"Failed to lock session">>]
      [] kind = "view"     -> [type |-> "FileContentResult", ok |-> FALSE,
                               name |-> <<>>, content |-> <<>>, reason |-> "Lock error"]
      [] OTHER             -> [type |-> "ListError", reason |-> "Lock error"]

Delivered == { w \in WorkerIds : workers[w].kind = "view" /\ sent[w] # <<>> /\ sent[w][1].ok }

RemoteFile(w) == fs.files[server_path(fs, workers[w].path)]

(***************************************************************************)
(* C15: the content a read with cap max_bytes delivers has at most         *)
(* max_bytes bytes and is a prefix of the remote file; and the read of a   *)
(* file, longer than the cap or not, ends with FileContentResult(Ok),      *)
(* never with an error.                                                    *)
(***************************************************************************)
C15_ReadIsCappedPrefix ==
    /\ \A w \in Delivered :
         /\ Len(sent[w][1].content) <= workers[w].max_bytes
         /\ IsPrefix(sent[w][1].content, RemoteFile(w))
    /\ \A w \in WorkerIds :
         (  workers[w].kind = "view" /\ workers[w].pc = "done"
         /\ server_path(fs, workers[w].path) \in DOMAIN fs.files ) => w \in Delivered

\* A file longer than the cap was read, and as many bytes as the cap allows
\* were delivered.
C15_Witness ==
    \E w \in Delivered :
      /\ Len(RemoteFile(w)) > workers[w].max_bytes
      /\ workers[w].max_bytes > 1
      /\ Len(sent[w][1].content) = workers[w].max_bytes
      /\ processed[w] = sent[w]

\* The terminal failure messages, and the error text each carries.
IsFailure(m) ==
    \/ m.type = "ListError"
    \/ m.type \in {"ConnectionResult", "DownloadResult", "FileContentResult"} /\ ~m.ok

ReasonOf(m) == IF m.type = "DownloadResult" THEN m.text[1] ELSE m.reason

HasPart(text, part) == \E i \in 1..Len(text) : text[i] = part

(***************************************************************************)
(* C16: the step that processes a terminal failure message                 *)
(* (ConnectionResult(Err), ListError, DownloadResult(Err),                 *)
(* FileContentResult(Err)) leaves status_msg a text that holds the         *)
(* message's error reason, leaves is_loading false, and starts no worker.  *)
(***************************************************************************)
C16_FailureIsShown ==
    [][ \A w \in WorkerIds :
          Processes(w) /\ IsFailure(Processed(w)) =>
            /\ HasPart(status_msg', ReasonOf(Processed(w)))
            /\ is_loading' = FALSE
            /\ workers' = workers
      ]_vars

\* The failure of a content read has just been processed and is on the
\* screen.
C16_Witness ==
    \E w \in WorkerIds :
      /\ workers[w].kind = "view" /\ processed[w] # <<>>
      /\ IsFailure(processed[w][1])
      /\ status_msg = <<"Failed to read file: ", processed[w][1].reason>>
      /\ ~is_loading

\* A step of the interactive thread: no worker that exists takes a step.
InteractiveStep == \A w \in WorkerIds : workers'[w] = workers[w]

(***************************************************************************)
(* C18: the interactive thread alone takes messages off the channel, and   *)
(* its steps leave the two locks and the remote host as they are; the      *)
(* receive of its drain is enabled exactly when the channel holds a        *)
(* message, whatever locks workers hold or wait for, so the drain goes on  *)
(* while there are messages and ends when there are none.                  *)
(***************************************************************************)
C18_DrainNeverBlocks ==
    /\ [](ENABLED Recv <=> channel # <<>>)
    /\ [][ /\ Len(channel') < Len(channel) =>
               InteractiveStep /\ channel' = Tail(channel)
           /\ InteractiveStep =>
               UNCHANGED <<fs, nconn, sftp_locked, session_locked, poisoned, clock>>
         ]_vars

\* A message waits in the channel while one worker holds the sftp lock and
\* another waits for it.
C18_Witness ==
    /\ channel # <<>>
    /\ \E w, v \in WorkerIds :
         /\ workers[w].guard = "sftp" /\ AtSftpLock(v)
         /\ workers[v].h = workers[w].h

(***************************************************************************)
(* C19: after a click on a column header, the sort column is the column    *)
(* clicked; the direction is Ascending when that column was not the sort   *)
(* column before (also when the direction was Descending), and the         *)
(* opposite of the previous direction when it was.                         *)
(***************************************************************************)
C19_ToggleRule ==
    call.op = "trigger_sort" =>
      /\ sort_column = call.column
      /\ IF call.column # call.from_column
         THEN sort_direction = "Asc"
         ELSE /\ call.from_direction = "Asc" => sort_direction = "Desc"
              /\ call.from_direction = "Desc" => sort_direction = "Asc"

\* Another column was clicked while the direction was Descending.
C19_Witness ==
    /\ call.op = "trigger_sort"
    /\ call.from_column \in SortColumns /\ call.column # call.from_column
    /\ call.from_direction = "Desc" /\ sort_direction = "Asc"

\* The key of an entry under a column.
KeyOf(e, column) ==
    CASE column = "Permission" -> e.perm
      [] column = "Size"       -> e.size
      [] column = "Date"       -> e.date
      [] column = "Name"       -> e.name

\* a's key is not greater than b's: numbers by value, texts by String's order.
KeyLeq(a, b, column) ==
    IF column = "Size" THEN a.size <= b.size
    ELSE str_cmp(KeyOf(a, column), KeyOf(b, column)) <= 0

Ordered(v, column, direction) ==
    \A i, j \in 1..Len(v) :
      i < j => IF direction = "Asc" THEN KeyLeq(v[i], v[j], column)
               ELSE KeyLeq(v[j], v[i], column)

\* post holds the entries of pre, those of equal key in the order they have
\* in pre.
KeepsEqualsInOrder(pre, post, column) ==
    /\ Len(post) = Len(pre)
    /\ \A k \in 1..Len(pre) :
         LET same(e) == KeyOf(e, column) = KeyOf(pre[k], column)
         IN SelectSeq(post, same) = SelectSeq(pre, same)

\* The step processes a ListBatch or a ListFinished, or is a click on a
\* column header; Arranged is the entry list the step sorts.
ProcessesListing(w) ==
    Processes(w) /\ Processed(w).type \in {"ListBatch", "ListFinished"}

SortingStep == call' # call \/ \E w \in WorkerIds : ProcessesListing(w)

Arranged ==
    IF \E w \in WorkerIds : Processes(w) /\ Processed(w).type = "ListBatch"
    THEN files \o (CHOOSE m \in { Processed(w) : w \in { v \in WorkerIds : Processes(v) } } :
                     TRUE).entries
    ELSE files

(***************************************************************************)
(* C20: while a sort column is active the displayed entries are ordered by *)
(* that column's key in the current direction, in every state between      *)
(* steps of the interactive thread; and the step that processes a          *)
(* ListBatch or a ListFinished, or a click on a column header, leaves the  *)
(* entries of equal key in the relative order they had before (for a       *)
(* batch: the displayed entries followed by the batch).                    *)
(***************************************************************************)
C20_SortedAndStable ==
    /\ [](sort_column # "None" => Ordered(files, sort_column, sort_direction))
    /\ [][ SortingStep /\ sort_column' # "None" =>
             KeepsEqualsInOrder(Arranged, files', sort_column')
         ]_vars

\* Entries of equal size from two batches are displayed, sorted by size in
\* descending order, the ones of the batch that came first before the others.
C20_Witness ==
    /\ sort_column = "Size" /\ sort_direction = "Desc"
    /\ Len(files) = 6
    /\ \E w \in WorkerIds : LastIs(processed[w], "ListBatch")
    /\ files[1].name = <<"b">> /\ files[2].name = <<"a">>
    /\ files[3].name = <<"b">> /\ files[4].name = <<"a">>

\* The nine permission letters and the masks of their bits, 0o400 down to
\* 0o001.
PermLetters == <<"r", "w", "x", "r", "w", "x", "r", "w", "x">>
PermMasks   == <<256, 128, 64, 32, 16, 8, 4, 2, 1>>

Masked(perm, mask) == perm % (2 * mask) >= mask

(***************************************************************************)
(* C21: format_permissions returns ten characters: 'd' for a directory and *)
(* '-' otherwise, then for each of the nine bits 0o400 .. 0o001 its letter *)
(* (rwx for user, group, other) when the bit is set and '-' when it is     *)
(* not; a missing mode counts as 0; 0o100644, not a directory, gives       *)
(* "-rw-r--r--" and 0o040755, a directory, gives "drwxr-xr-x".             *)
(***************************************************************************)
C21_PermissionString ==
    (call.op = "format_permissions" /\ call.returned) =>
      LET perm == IF call.stat.perm.some THEN call.stat.perm.val ELSE 0
          r    == call.result
      IN /\ Len(r) = 10
         /\ r[1] = IF call.dir THEN "d" ELSE "-"
         /\ \A k \in 1..9 :
              r[k + 1] = IF Masked(perm, PermMasks[k]) THEN PermLetters[k] ELSE "-"
         /\ (call.stat.perm = Some(33188) /\ ~call.dir) =>
              r = <<"-","r","w","-","r","-","-","r","-","-">>
         /\ (call.stat.perm = Some(16877) /\ call.dir) =>
              r = <<"d","r","w","x","r","-","x","r","-","x">>

\* 0o040755 was formatted, and it is a directory.
C21_Witness ==
    /\ call.op = "format_permissions" /\ call.returned
    /\ call.stat.perm = Some(16877) /\ call.dir
    /\ call.result = <<"d","r","w","x","r","-","x","r","-","x">>

(***************************************************************************)
(* C22: every FileEntry built from a stat has size 0 when the stat has no  *)
(* size and date "Unknown" when it has no modification time, and the       *)
(* entries built from one stat with a modification time all have the same  *)
(* date. The last part fails for a timestamp chrono does not hold, which   *)
(* is rendered as the time of the call.                                    *)
(***************************************************************************)
C22_EntryDefaults ==
    call.op = "FileEntry" =>
      /\ \A i \in 1..Len(call.renders) :
           /\ ~call.stat.size.some => call.renders[i].size = 0
           /\ ~call.stat.mtime.some =>
                call.renders[i].date = <<"U","n","k","n","o","w","n">>
      /\ call.stat.mtime.some =>
           \A i, j \in 1..Len(call.renders) : call.renders[i].date = call.renders[j].date

\* C23: the thread that View or Download starts works on the current path and
\* the name of the selected file joined as the three cases say (plain
\* concatenation after a trailing "/", the name alone after an empty path, a
\* "/" between them otherwise), and the separator before the name is never
\* next to another one.
JoinedAs(cur, name, path) ==
    IF cur = <<>> THEN path = name
    ELSE IF cur[Len(cur)] = "/" THEN path = cur \o name
    ELSE path = cur \o <<"/">> \o name

DoubledAtJoin(path, name) ==
    LET j == Len(path) - Len(name)
    IN /\ j >= 2
       /\ path[j] = "/"
       /\ path[j - 1] = "/" \/ (name # <<>> /\ name[1] = "/")

StartsTransfer(w) ==
    /\ w > Len(workers)
    /\ workers'[w].kind \in {"view", "download"}

C23_RemotePathJoin ==
    [][\A w \in 1..Len(workers') :
         StartsTransfer(w) =>
            /\ JoinedAs(current_path, selected_file.val.name, workers'[w].path)
            /\ ~DoubledAtJoin(workers'[w].path, selected_file.val.name)]_vars

\* C24: the Disconnect button leaves the interactive thread without a
\* handle, neither the session nor the SFTP subchannel, and a part it does
\* not hold is only held again by the step that processes a
\* ConnectionResult(Ok).
Disconnects ==
    /\ is_connected /\ ~is_connected'
    /\ status_msg' = <<"Disconnected.">>

TakesHandle ==
    \/ ~session.some /\ session'.some
    \/ ~sftp.some /\ sftp'.some

C24_DisconnectEndsHandle ==
    [][/\ Disconnects => ~session'.some /\ ~sftp'.some
       /\ TakesHandle => ProcessesConnectionResult(TRUE)]_vars

\* C25: nothing is cancelled. The step that starts a thread leaves every
\* thread already started as it was, and when the ListStarted or
\* SearchStarted of a later list or search has been processed, the step that
\* processes a ListBatch of an earlier one still puts all its entries on the
\* screen, next to the ones shown.
SameEntries(a, b) ==
    /\ Len(a) = Len(b)
    /\ \A i \in 1..Len(a) :
         Cardinality({j \in 1..Len(a) : a[j] = a[i]})
           = Cardinality({j \in 1..Len(b) : b[j] = a[i]})

Superseded(w) ==
    \E v \in WorkerIds :
       /\ v > w
       /\ processed[v] # <<>>
       /\ processed[v][1].type \in {"ListStarted", "SearchStarted"}

C25_NoCancellation ==
    [][/\ Len(workers') > Len(workers) =>
            \A w \in WorkerIds : workers'[w] = workers[w] /\ sent'[w] = sent[w]
       /\ \A w \in WorkerIds :
            Superseded(w) /\ Processes(w) /\ Processed(w).type = "ListBatch" =>
               SameEntries(files', files \o Processed(w).entries)]_vars

C25_Witness ==
    \E w \in WorkerIds, v \in WorkerIds :
       /\ w < v
       /\ Len(processed[v]) = 1
       /\ processed[v][1].type \in {"ListStarted", "SearchStarted"}
       /\ processed[w] # <<>>
       /\ processed[w][Len(processed[w])].type = "ListBatch"
       /\ files # <<>>
       /\ files = processed[w][Len(processed[w])].entries

\* C26: only the drain loop changes which entries are on the screen: a step
\* after which files holds other entries than before (one more, one fewer,
\* none) is a step that processes a message.
C26_OnlyReducerChangesFiles ==
    [][~SameEntries(files', files) => \E w \in WorkerIds : Processes(w)]_vars

\* The step processes a message of a connect worker's listing of the initial
\* path.
ProcessesInitialListing(w) ==
    /\ workers[w].kind = "connect"
    /\ Processes(w)
    /\ Processed(w).type = "ListStarted"

\* The ConnectionResult(Ok) of worker w was processed first, and the listing
\* is of the path it carried.
AfterItsConnectionResult(w) ==
    /\ Len(processed[w]) = 1
    /\ processed[w][1].type = "ConnectionResult" /\ processed[w][1].ok
    /\ Processed(w).path = processed[w][1].path

\* C27: a connect worker sends ConnectionResult(Ok) and then the messages
\* of the listing of the initial path, so the interactive thread processes
\* its ListStarted after its ConnectionResult(Ok); and when it has processed
\* both, current_path is the path that connect resolved and is_connected is
\* TRUE.
C27_ConnectThenInitialListing ==
    [][\A w \in WorkerIds :
         ProcessesInitialListing(w) =>
            /\ AfterItsConnectionResult(w)
            /\ current_path' = processed[w][1].path
            /\ is_connected']_vars

\* C27 as the code has it: the order and the path are as stated; the step
\* that processes ConnectionResult(Ok) sets is_connected, the step that
\* processes the ListStarted leaves it as it is, and between the two only the
\* Disconnect button or a ConnectionResult(Err) clears it.
C27_ConnectedUnlessDisconnected ==
    [][/\ \A w \in WorkerIds :
            /\ ProcessesInitialListing(w) =>
                  /\ AfterItsConnectionResult(w)
                  /\ current_path' = processed[w][1].path
                  /\ is_connected' = is_connected
            /\ Processes(w) /\ Processed(w).type = "ConnectionResult" /\ Processed(w).ok =>
                  /\ is_connected'
                  /\ current_path' = Processed(w).path
       /\ is_connected /\ ~is_connected' =>
            Disconnects \/ ProcessesConnectionResult(FALSE)]_vars

C27_Witness ==
    \E w \in WorkerIds :
       /\ workers[w].kind = "connect"
       /\ Len(processed[w]) = 2
       /\ processed[w][1].type = "ConnectionResult" /\ processed[w][1].ok
       /\ processed[w][2].type = "ListStarted"
       /\ current_path = processed[w][1].path
       /\ is_connected

\* C28: with every thread that was started finished and the channel
\* drained, the busy indicator is off.
NothingInFlight ==
    /\ \A w \in WorkerIds : workers[w].pc = "done"
    /\ channel = <<>>

C28_IdleMeansNotLoading == NothingInFlight => ~is_loading

\* C29: while a connect attempt has not had its ConnectionResult processed,
\* connect_ssh starts no other: on every frame rendered meanwhile the login
\* screen is not shown, or is_loading is set, so that the Connect button is
\* replaced by the spinner and connect_ssh returns at its guard.
ConnectInFlight(w) ==
    /\ workers[w].kind = "connect"
    /\ \A i \in 1..Len(processed[w]) : processed[w][i].type # "ConnectionResult"

ConnectOffered == Rendering /\ ~is_connected /\ ~is_loading

C29_OneConnectInFlight ==
    (\E w \in WorkerIds : ConnectInFlight(w)) => ~ConnectOffered

\* C30: whenever is_connected is TRUE the interactive thread holds both the
\* session and the SFTP subchannel, so a step of the browser screen that sets
\* is_loading for a list, search, view or download starts its thread.
BrowserOperation ==
    /\ is_connected /\ is_connected'
    /\ ~is_loading /\ is_loading'
    /\ \A w \in WorkerIds : ~Processes(w)

C30_ConnectedHoldsHandle ==
    /\ [](is_connected => session.some /\ sftp.some)
    /\ [][BrowserOperation => Len(workers') = Len(workers) + 1]_vars

C30_Witness ==
    /\ is_connected /\ session.some /\ sftp.some
    /\ \E w \in WorkerIds : workers[w].kind \in {"list", "search", "view", "download"}

\* C31: a thread holds the locks that its guard names and no other: a lock
\* is held by exactly one thread, a thread that waits for a lock holds none
\* (so no threads wait for each other in a cycle), a thread that has ended
\* holds none, and while a thread has not ended some thread can take a step.
\* With every remote call returning and every thread scheduled, a thread
\* that waits for a lock gets it, and every thread that was started ends.
Holders(h, lock) ==
    {w \in WorkerIds : workers[w].h = h /\ workers[w].guard = lock}

Waits(w) == workers[w].pc = "lock"

CanRun(w) ==
    /\ workers[w].pc # "done"
    /\ Waits(w) =>
          IF workers[w].kind = "download" THEN CanLockSession(workers[w].h)
          ELSE CanLockSftp(workers[w].h)

LocksHaveOneHolder ==
    \A h \in 1..nconn :
       /\ Cardinality(Holders(h, "sftp")) = (IF sftp_locked[h] THEN 1 ELSE 0)
       /\ Cardinality(Holders(h, "session")) = (IF session_locked[h] THEN 1 ELSE 0)

NoWaitCycle ==
    /\ \A w \in WorkerIds :
          (Waits(w) \/ workers[w].pc = "done") => workers[w].guard = "none"
    /\ (\E w \in WorkerIds : workers[w].pc # "done") => \E w \in WorkerIds : CanRun(w)

Started(w) == w \in WorkerIds

Hits(w) ==
    SelectSeq(Walk(fs, BaseKey(w), workers[w].recursive),
              LAMBDA e : matches_pattern(e.name, workers[w].pattern))

C32_RowsNameTheirEntries ==
    \A w \in WorkerIds :
      IsSearch(w) /\ BaseOpens(w) /\ LastIs(processed[w], "ListFinished") =>
        /\ Len(files) = Len(Hits(w))
        /\ \A i \in 1..Len(files) :
             server_path(fs, remote_path(current_path, files[i].name)) = Hits(w)[i].key

\* C33: a list or search that runs undisturbed fills the screen with its own
\* entries. The step that processes its ListStarted or SearchStarted empties
\* the screen and the selection; from then on, while the screen holds exactly
\* the entries of the batches processed for it, every step that neither
\* processes a message of another list or search nor is the Disconnect button
\* keeps it so; and the step that processes its ListFinished writes the
\* number of those entries into the status line.
ListTypes == {"ListStarted", "SearchStarted", "ListBatch", "ListFinished", "ListError"}

Outstanding(w) ==
    /\ \E i \in 1..Len(processed[w]) :
          processed[w][i].type \in {"ListStarted", "SearchStarted"}
    /\ \A i \in 1..Len(processed[w]) :
          processed[w][i].type \notin {"ListFinished", "ListError"}

ShownAs(rows, hist) == SameEntries(rows, Concat(BatchesOf(hist)))

Interferes(w) ==
    \/ Disconnects
    \/ \E v \in WorkerIds \ {w} : Processes(v) /\ Processed(v).type \in ListTypes

C33_UndisturbedOperationFillsScreen ==
    [][\A w \in WorkerIds :
         /\ Processes(w) /\ Processed(w).type \in {"ListStarted", "SearchStarted"} =>
               files' = <<>> /\ selected_file' = None
         /\ Outstanding(w) /\ ShownAs(files, processed[w]) /\ ~Interferes(w) =>
               /\ ShownAs(files', processed'[w])
               /\ Processes(w) /\ Processed(w).type = "ListFinished" =>
                     status_msg' = << "Listed ",
                                      ToString(Len(Concat(BatchesOf(processed'[w])))),
                                      " files." >>]_vars

C33_Witness ==
    \E w \in WorkerIds :
       /\ Len(workers) > 1
       /\ LastIs(processed[w], "ListFinished")
       /\ files # <<>>
       /\ ShownAs(files, processed[w])
       /\ status_msg = <<"Listed ", ToString(Len(files)), " files.">>

====
